---------------------------- MODULE Spec2Model ----------------------------
(***************************************************************************)
(* A model of the Lambda interpreter: Lexer (source text -> tokens),      *)
(* Parser (tokens -> statement trees, panic-mode recovery), Environment   *)
(* (scope chain), Interpreter (tree-walking evaluator) and the run()      *)
(* entry points that chain them.                                           *)
(*                                                                         *)
(* JavaScript values are tagged records, each tag with field names of its *)
(* own.  Objects with identity (frames, instances, classes, native UI     *)
(* objects) live in heaps indexed by their allocation number.  A JS       *)
(* exception is the field "exc" of the state a function returns; every    *)
(* caller tests it before going on, as the JS runtime unwinds.            *)
(***************************************************************************)
EXTENDS Integers, Sequences, FiniteSets, TLC

(***************************************************************************)
(* Bounds of the model.                                                    *)
(***************************************************************************)
\* Upper bound on the number of fragments concatenated into one input.
MaxFragments == 3

(***************************************************************************)
(* Small helpers on maps (JS Map / object used as a map).                  *)
(***************************************************************************)
EmptyMap == [k \in {} |-> TRUE]

MapHas(m, k) == k \in DOMAIN m

MapSet(m, k, v) == [x \in (DOMAIN m) \cup {k} |-> IF x = k THEN v ELSE m[x]]

RECURSIVE Concat(_)
\* The string made of a sequence of one-character strings (String.substring).
Concat(cs) == IF cs = <<>> THEN "" ELSE Head(cs) \o Concat(Tail(cs))

(***************************************************************************)
(* Values.                                                                 *)
(***************************************************************************)
Null == [t |-> "nil"]
Undefined == [t |-> "undefined"]
BoolV(b) == [t |-> "bool", b |-> b]
StrV(s) == [t |-> "string", s |-> s]
\* A number is kept as the fraction num/den in lowest terms, den > 0;
\* den = 0 stands for the doubles that are no fraction: 1/0 Infinity,
\* -1/0 -Infinity, 0/0 NaN.
NumQ(n, d) == [t |-> "number", num |-> n, den |-> d]
NumV(n) == NumQ(n, 1)
\* a JS array, with the number of its allocation for its identity
ListV(es, id) == [t |-> "list", elems |-> es, lid |-> id]
InstV(i) == [t |-> "instance", inst |-> i]
ClassV(c) == [t |-> "class", class |-> c]

(***************************************************************************)
(* Tokens (token.js) and the keyword table (lexer).                        *)
(***************************************************************************)
keywords ==
    [class |-> "CLASS", else |-> "ELSE", fn |-> "FN", if |-> "IF",
     let |-> "LET", print |-> "PRINT", this |-> "THIS", static |-> "STATIC",
     ui |-> "UI", true |-> "TRUE", false |-> "FALSE", nil |-> "NIL"]

\* keywords is a plain JS object: keywords[text] also finds what every object
\* inherits from Object.prototype, and each of those is truthy.
ObjectPrototypeKeys ==
    {"constructor", "toString", "valueOf", "hasOwnProperty", "isPrototypeOf",
     "propertyIsEnumerable", "toLocaleString", "__proto__"}

\* keywords[text] || TokenType.IDENTIFIER
KeywordLookup(text) ==
    IF text \in DOMAIN keywords THEN keywords[text]
    ELSE IF text \in ObjectPrototypeKeys THEN "<Object.prototype." \o text \o ">"
    ELSE "IDENTIFIER"

Token(type, lexeme, literal, line, column) ==
    [type |-> type, lexeme |-> lexeme, literal |-> literal,
     line |-> line, column |-> column]

(***************************************************************************)
(* Lexer.  Offsets are the 0-based offsets of the JS code; the source is  *)
(* a sequence of one-character strings.                                    *)
(***************************************************************************)
Digits == <<"0", "1", "2", "3", "4", "5", "6", "7", "8", "9">>

Letters ==
    {"a", "b", "c", "d", "e", "f", "g", "h", "i", "j", "k", "l", "m", "n",
     "o", "p", "q", "r", "s", "t", "u", "v", "w", "x", "y", "z",
     "A", "B", "C", "D", "E", "F", "G", "H", "I", "J", "K", "L", "M", "N",
     "O", "P", "Q", "R", "S", "T", "U", "V", "W", "X", "Y", "Z"}

isDigit(c) == \E i \in 1..10 : Digits[i] = c

isAlpha(c) == c \in Letters \/ c = "_"

isAlphaNumeric(c) == isAlpha(c) \/ isDigit(c)

DigitValue(c) == (CHOOSE i \in 1..10 : Digits[i] = c) - 1

RECURSIVE parseFloat(_)
\* parseFloat of a run of digits.
parseFloat(cs) ==
    IF cs = <<>> THEN 0
    ELSE 10 * parseFloat(SubSeq(cs, 1, Len(cs) - 1)) + DigitValue(cs[Len(cs)])

NewLexer(source) ==
    [source |-> source, start |-> 0, current |-> 0, line |-> 1,
     tokens |-> <<>>, errors |-> <<>>, lineStart |-> 0]

LexIsAtEnd(lx) == lx.current >= Len(lx.source)

\* source.charAt(i): "" past the end
CharAt(lx, i) == IF i < Len(lx.source) THEN lx.source[i + 1] ELSE ""

\* source.substring(from, to)
Substring(lx, from, to) == Concat(SubSeq(lx.source, from + 1, to))

\* "\0" is written "NUL"
LexPeek(lx) == IF LexIsAtEnd(lx) THEN "NUL" ELSE CharAt(lx, lx.current)

LexPeekNext(lx) ==
    IF lx.current + 1 >= Len(lx.source) THEN "NUL" ELSE CharAt(lx, lx.current + 1)

LexAdvance(lx) == [lx EXCEPT !.current = @ + 1]

addToken(lx, type, literal) ==
    [lx EXCEPT !.tokens =
        Append(@, Token(type, Substring(lx, lx.start, lx.current), literal,
                        lx.line, lx.start - lx.lineStart))]

\* a report that also ends the token list: the lexer gives up at the error
reportErrorAndEnd(lx, message) ==
    LET column == lx.current - lx.lineStart - 1
    IN [lx EXCEPT !.errors =
          Append(@, [range |-> [start |-> [line |-> lx.line - 1, character |-> column],
                                end |-> [line |-> lx.line - 1, character |-> column + 1]],
                     message |-> message,
                     severity |-> 1]),
                  !.tokens = Append(@, Token("EOF", "", Null, lx.line, column))]

reportError(lx, message) ==
    LET column == lx.current - lx.lineStart - 1
    IN [lx EXCEPT !.errors =
          Append(@, [range |-> [start |-> [line |-> lx.line - 1, character |-> column],
                                end |-> [line |-> lx.line - 1, character |-> column + 1]],
                     message |-> message,
                     severity |-> 1])]

\* match(expected) as the pair: the lexer after it, and its result
LexMatches(lx, expected) == ~LexIsAtEnd(lx) /\ CharAt(lx, lx.current) = expected

LexMatch(lx, expected) == IF LexMatches(lx, expected) THEN LexAdvance(lx) ELSE lx

RECURSIVE SkipComment(_)
\* the while loop of the block comment
SkipComment(lx) ==
    IF ~(LexPeek(lx) = "*" /\ LexPeekNext(lx) = "*") /\ ~LexIsAtEnd(lx)
    THEN SkipComment(LexAdvance(
             IF LexPeek(lx) = "\n" THEN [lx EXCEPT !.line = @ + 1] ELSE lx))
    ELSE lx

blockComment(lx) ==
    LET after == SkipComment(lx)
    IN IF LexIsAtEnd(after) THEN reportError(after, "Unterminated comment.")
       ELSE LexAdvance(LexAdvance(after))

RECURSIVE StringBody(_)
StringBody(lx) ==
    IF LexPeek(lx) # "\"" /\ ~LexIsAtEnd(lx)
    THEN StringBody(LexAdvance(
             IF LexPeek(lx) = "\n" THEN [lx EXCEPT !.line = @ + 1] ELSE lx))
    ELSE lx

string(lx) ==
    LET after == StringBody(lx)
    IN IF LexIsAtEnd(after) THEN reportError(after, "Unterminated string.")
       ELSE LET closed == LexAdvance(after)
            IN addToken(closed, "STRING",
                        StrV(Substring(closed, closed.start + 1, closed.current - 1)))

RECURSIVE DigitRun(_)
DigitRun(lx) == IF isDigit(LexPeek(lx)) THEN DigitRun(LexAdvance(lx)) ELSE lx

number(lx) ==
    LET after == DigitRun(lx)
    IN addToken(after, "NUMBER",
                NumV(parseFloat(SubSeq(after.source, after.start + 1, after.current))))

RECURSIVE AlphaNumericRun(_)
AlphaNumericRun(lx) ==
    IF isAlphaNumeric(LexPeek(lx)) THEN AlphaNumericRun(LexAdvance(lx)) ELSE lx

identifier(lx) ==
    LET after == AlphaNumericRun(lx)
        text == Substring(after, after.start, after.current)
    IN addToken(after, KeywordLookup(text), Null)

SingleCharTokens ==
    [c \in {"(", ")", "{", "}", ",", ".", "-", "+", ";", "/"} |->
        CASE c = "(" -> "LEFT_PAREN"
          [] c = ")" -> "RIGHT_PAREN"
          [] c = "{" -> "LEFT_BRACE"
          [] c = "}" -> "RIGHT_BRACE"
          [] c = "," -> "COMMA"
          [] c = "." -> "DOT"
          [] c = "-" -> "MINUS"
          [] c = "+" -> "PLUS"
          [] c = ";" -> "SEMICOLON"
          [] c = "/" -> "SLASH"]

scanToken(lx0) ==
    LET c == CharAt(lx0, lx0.current)
        lx == LexAdvance(lx0)
    IN CASE c \in DOMAIN SingleCharTokens -> addToken(lx, SingleCharTokens[c], Null)
         [] c = "*" ->
              IF LexMatches(lx, "*") THEN blockComment(LexAdvance(lx))
              ELSE addToken(lx, "STAR", Null)
         [] c = "!" ->
              addToken(LexMatch(lx, "="),
                       IF LexMatches(lx, "=") THEN "BANG_EQUAL" ELSE "BANG", Null)
         [] c = "=" ->
              addToken(LexMatch(lx, "="),
                       IF LexMatches(lx, "=") THEN "EQUAL_EQUAL" ELSE "EQUAL", Null)
         [] c = "<" ->
              addToken(LexMatch(lx, "="),
                       IF LexMatches(lx, "=") THEN "LESS_EQUAL" ELSE "LESS", Null)
         [] c = ">" ->
              addToken(LexMatch(lx, "="),
                       IF LexMatches(lx, "=") THEN "GREATER_EQUAL" ELSE "GREATER", Null)
         [] c = "\"" -> string(lx)
         [] c \in {" ", "\r", "\t"} -> lx
         [] c = "\n" -> [lx EXCEPT !.line = @ + 1, !.lineStart = lx.current]
         [] OTHER ->
              IF isDigit(c) THEN number(lx)
              ELSE IF isAlpha(c) THEN identifier(lx)
              ELSE reportError(lx, "Unexpected character: '" \o c \o "'")

RECURSIVE ScanRounds(_, _)
\* while (!this.isAtEnd()) { this.start = this.current; this.scanToken(); }
\* for n rounds at most, from a lexer that is not at the end; the rounds are
\* taken by halves, which keeps the evaluation shallow
ScanRounds(lx, n) ==
    IF n = 1 THEN scanToken([lx EXCEPT !.start = lx.current])
    ELSE LET half == ScanRounds(lx, n \div 2)
         IN IF LexIsAtEnd(half) THEN half ELSE ScanRounds(half, n - n \div 2)

\* the whole loop: a round consumes a character at least
ScanLoop(lx) == IF LexIsAtEnd(lx) THEN lx ELSE ScanRounds(lx, Len(lx.source))

\* Lexer.scanTokens: the lexer after the whole scan, EOF token appended
scanTokens(lx) ==
    LET done == ScanLoop(lx)
    IN [done EXCEPT !.tokens =
          Append(@, Token("EOF", "", Null, done.line, done.current - done.lineStart))]

(***************************************************************************)
(* Syntax trees.  A node is a record with the "type" of the JS object;     *)
(* null where the JS tree holds null.                                      *)
(***************************************************************************)
NullNode == [type |-> "null"]

(***************************************************************************)
(* Parser.  Every grammar method returns the parser after it, the node it  *)
(* built and whether it threw the parse error.                             *)
(***************************************************************************)
\* Function/method parameter lists are capped at 255 entries.
MaxParams == 255

NewParser(tokens) == [tokens |-> tokens, current |-> 0, errors |-> 0, messages |-> <<>>]

Ok(p, node) == [p |-> p, node |-> node, thrown |-> FALSE]

Thrown(p) == [p |-> p, node |-> NullNode, thrown |-> TRUE]

peek(p) == p.tokens[p.current + 1]

previous(p) == p.tokens[p.current]

isAtEnd(p) == peek(p).type = "EOF"

check(p, type) == IF isAtEnd(p) THEN FALSE ELSE peek(p).type = type

advance(p) == IF ~isAtEnd(p) THEN [p EXCEPT !.current = @ + 1] ELSE p

\* match(...types): whether it matches, and the parser after it
matches(p, types) == \E type \in types : check(p, type)

match(p, types) == IF matches(p, types) THEN advance(p) ELSE p

\* Parser.error: logs the message, counts the error, returns the Error object
error(p, token, message) ==
    [p EXCEPT !.errors = @ + 1,
              !.messages = Append(@, [line |-> token.line,
                                      at |-> IF token.type = "EOF" THEN "at end"
                                             ELSE "at '" \o token.lexeme \o "'",
                                      message |-> message])]

\* consume: the token consumed is the node of the result
consume(p, type, message) ==
    IF check(p, type) THEN Ok(advance(p), previous(advance(p)))
    ELSE Thrown(error(p, peek(p), message))

RECURSIVE SynchronizeLoop(_)
SynchronizeLoop(p) ==
    IF isAtEnd(p) THEN p
    ELSE IF previous(p).type = "SEMICOLON" THEN p
    ELSE IF peek(p).type \in {"FN", "LET"} THEN p
    ELSE SynchronizeLoop(advance(p))

\* a synchronize that keeps the token it stands at when that token starts a
\* declaration
synchronizeKeepingStart(p) ==
    IF matches(p, {"FN", "LET"}) THEN p ELSE SynchronizeLoop(advance(p))

synchronize(p) == SynchronizeLoop(advance(p))

\* this.consume(type, message) once the step r is done; the node of r is kept
Expect(r, type, message) ==
    IF r.thrown THEN r
    ELSE IF check(r.p, type) THEN Ok(advance(r.p), r.node)
    ELSE Thrown(error(r.p, peek(r.p), message))

\* the step r once  first  is parsed: both, when r did not throw
Pair(first, r) == IF r.thrown THEN r ELSE Ok(r.p, <<first, r.node>>)

\* the object a grammar method returns, from the parts r has gathered
Node(type, r) ==
    IF r.thrown THEN r
    ELSE Ok(r.p,
            CASE type \in {"ExpressionStatement", "PrintStatement"} ->
                    [type |-> type, expression |-> r.node]
              [] type \in {"VarStatement", "UiStatement"} ->
                    [type |-> type, name |-> r.node[1], initializer |-> r.node[2]]
              [] type = "IfStatement" ->
                    [type |-> type, condition |-> r.node[1][1],
                     thenBranch |-> r.node[1][2], elseBranch |-> r.node[2]]
              [] type = "BlockStatement" -> [type |-> type, statements |-> r.node]
              [] type = "ClassStatement" ->
                    [type |-> type, name |-> r.node[1], methods |-> r.node[2]]
              [] type = "ListLiteralExpression" ->
                    [type |-> type, elements |-> r.node]
              [] type = "CallExpression" ->
                    [type |-> type, callee |-> r.node[1], arguments |-> r.node[2]]
              [] type = "GetExpression" ->
                    [type |-> type, object |-> r.node[1], name |-> r.node[2]])

RECURSIVE declaration(_), statement(_), block(_), BlockLoop(_, _),
          classDeclaration(_), ClassBodyLoop(_, _), function(_, _),
          ParametersLoop(_, _), expression(_), assignment(_), call(_),
          CallLoop(_), ArgumentsLoop(_, _), primary(_), unary(_),
          factor(_), FactorLoop(_, _), term(_), TermLoop(_, _),
          comparison(_), ComparisonLoop(_, _), equality(_), EqualityLoop(_, _),
          ifStatement(_), AssignmentAfter(_), AssignmentNode(_, _),
          Arguments(_, _), ArgumentsPush(_, _), ParametersPush(_, _),
          Condition(_), ThenBranch(_), ElseBranch(_), BlockPush(_, _),
          FunctionNode(_, _), Parameters(_), Body(_), MethodPush(_, _),
          Methods(_), Initializer(_)

primary(p) ==
    IF matches(p, {"TRUE"}) THEN
        Ok(advance(p), [type |-> "LiteralExpression", value |-> BoolV(TRUE)])
    ELSE IF matches(p, {"FALSE"}) THEN
        Ok(advance(p), [type |-> "LiteralExpression", value |-> BoolV(FALSE)])
    ELSE IF matches(p, {"NIL"}) THEN
        Ok(advance(p), [type |-> "LiteralExpression", value |-> Null])
    ELSE IF matches(p, {"NUMBER"}) \/ matches(p, {"STRING"}) THEN
        Ok(advance(p), [type |-> "LiteralExpression", value |-> peek(p).literal])
    ELSE IF matches(p, {"THIS"}) THEN
        Ok(advance(p), [type |-> "ThisExpression", keyword |-> peek(p)])
    ELSE IF matches(p, {"IDENTIFIER"}) THEN
        Ok(advance(p), [type |-> "VariableExpression", name |-> peek(p)])
    ELSE IF matches(p, {"LEFT_BRACKET"}) THEN
        Node("ListLiteralExpression",
             Expect(Arguments(advance(p), "RIGHT_BRACKET"), "RIGHT_BRACKET",
                    "Expect ']' after list elements."))
    ELSE Thrown(error(p, peek(p), "Expect expression."))

\* if (!this.check(closing)) { do ... while (this.match(COMMA)); }
\* the node of the result is the list of expressions
Arguments(p, closing) ==
    IF ~check(p, closing) THEN ArgumentsLoop(p, <<>>) ELSE Ok(p, <<>>)

\* do { list.push(this.expression()); } while (this.match(COMMA));
ArgumentsLoop(p, list) == ArgumentsPush(list, expression(p))

ArgumentsPush(list, e) ==
    IF e.thrown THEN e
    ELSE IF matches(e.p, {"COMMA"})
         THEN ArgumentsLoop(advance(e.p), Append(list, e.node))
         ELSE Ok(e.p, Append(list, e.node))

\* the while (true) loop of call(), expr the expression parsed so far
CallLoop(expr) ==
    IF expr.thrown THEN expr
    ELSE IF matches(expr.p, {"LEFT_PAREN"}) THEN
        CallLoop(Node("CallExpression",
                      Expect(Pair(expr.node, Arguments(advance(expr.p), "RIGHT_PAREN")),
                             "RIGHT_PAREN", "Expect ')' after arguments.")))
    ELSE IF matches(expr.p, {"DOT"}) THEN
        CallLoop(Node("GetExpression",
                      Pair(expr.node, consume(advance(expr.p), "IDENTIFIER",
                                              "Expect property name after '.'."))))
    ELSE expr

call(p) == CallLoop(primary(p))

unary(p) ==
    IF matches(p, {"BANG", "MINUS"}) THEN
        LET right == unary(advance(p))
        IN IF right.thrown THEN right
           ELSE Ok(right.p, [type |-> "UnaryExpression", operator |-> peek(p),
                             right |-> right.node])
    ELSE call(p)

FactorLoop(p, expr) ==
    IF matches(p, {"SLASH", "STAR"}) THEN
        LET right == unary(advance(p))
        IN IF right.thrown THEN right
           ELSE FactorLoop(right.p, [type |-> "BinaryExpression", left |-> expr,
                                     operator |-> peek(p), right |-> right.node])
    ELSE Ok(p, expr)

factor(p) ==
    LET expr == unary(p)
    IN IF expr.thrown THEN expr ELSE FactorLoop(expr.p, expr.node)

TermLoop(p, expr) ==
    IF matches(p, {"MINUS", "PLUS"}) THEN
        LET right == factor(advance(p))
        IN IF right.thrown THEN right
           ELSE TermLoop(right.p, [type |-> "BinaryExpression", left |-> expr,
                                   operator |-> peek(p), right |-> right.node])
    ELSE Ok(p, expr)

term(p) ==
    LET expr == factor(p)
    IN IF expr.thrown THEN expr ELSE TermLoop(expr.p, expr.node)

ComparisonLoop(p, expr) ==
    IF matches(p, {"GREATER", "GREATER_EQUAL", "LESS", "LESS_EQUAL"}) THEN
        LET right == term(advance(p))
        IN IF right.thrown THEN right
           ELSE ComparisonLoop(right.p, [type |-> "BinaryExpression", left |-> expr,
                                         operator |-> peek(p), right |-> right.node])
    ELSE Ok(p, expr)

comparison(p) ==
    LET expr == term(p)
    IN IF expr.thrown THEN expr ELSE ComparisonLoop(expr.p, expr.node)

EqualityLoop(p, expr) ==
    IF matches(p, {"BANG_EQUAL", "EQUAL_EQUAL"}) THEN
        LET right == comparison(advance(p))
        IN IF right.thrown THEN right
           ELSE EqualityLoop(right.p, [type |-> "BinaryExpression", left |-> expr,
                                       operator |-> peek(p), right |-> right.node])
    ELSE Ok(p, expr)

equality(p) ==
    LET expr == comparison(p)
    IN IF expr.thrown THEN expr ELSE EqualityLoop(expr.p, expr.node)

\* The operand of assignment() is call(): equality() and the rules below it
\* are called from nowhere.
AssignmentOperand(p) == call(p)

\* assignment() once  const expr = this.call()  is done
AssignmentAfter(expr) ==
    IF expr.thrown THEN expr
    ELSE IF matches(expr.p, {"EQUAL"})
         THEN AssignmentNode(expr, assignment(advance(expr.p)))
         ELSE expr

\* and once  const value = this.assignment()  is done; equals is the token
\* before it
AssignmentNode(expr, value) ==
    IF value.thrown THEN value
    ELSE IF expr.node.type = "VariableExpression" THEN
         Ok(value.p, [type |-> "AssignExpression", name |-> expr.node.name,
                      value |-> value.node])
    ELSE IF expr.node.type = "GetExpression" THEN
         Ok(value.p, [type |-> "SetExpression", object |-> expr.node.object,
                      name |-> expr.node.name, value |-> value.node])
    ELSE Ok(error(value.p, peek(expr.p), "Invalid assignment target."), expr.node)

assignment(p) == AssignmentAfter(AssignmentOperand(p))

expression(p) == assignment(p)

expressionStatement(p) ==
    Node("ExpressionStatement",
         Expect(expression(p), "SEMICOLON", "Expect ';' after expression."))

printStatement(p) ==
    Node("PrintStatement", Expect(expression(p), "SEMICOLON", "Expect ';' after value."))

\* let initializer = null; if (this.match(EQUAL)) initializer = this.expression();
Initializer(name) ==
    IF name.thrown THEN name
    ELSE IF matches(name.p, {"EQUAL"})
         THEN Pair(name.node, expression(advance(name.p)))
         ELSE Ok(name.p, <<name.node, NullNode>>)

\* varDeclaration and uiDeclaration differ in the node type and the messages
BindingDeclaration(p, type, expectName, expectSemicolon) ==
    Node(type, Expect(Initializer(consume(p, "IDENTIFIER", expectName)),
                      "SEMICOLON", expectSemicolon))

varDeclaration(p) ==
    BindingDeclaration(p, "VarStatement", "Expect variable name.",
                       "Expect ';' after variable declaration.")

uiDeclaration(p) ==
    BindingDeclaration(p, "UiStatement", "Expect UI component name.",
                       "Expect ';' after UI declaration.")

\* const condition = this.expression();
Condition(open) == IF open.thrown THEN open ELSE expression(open.p)

\* const thenBranch = this.statement();
ThenBranch(condition) ==
    IF condition.thrown THEN condition
    ELSE Pair(condition.node, statement(condition.p))

\* let elseBranch = null; if (this.match(ELSE)) elseBranch = this.statement();
ElseBranch(r) ==
    IF r.thrown THEN r
    ELSE IF matches(r.p, {"ELSE"}) THEN Pair(r.node, statement(advance(r.p)))
    ELSE Ok(r.p, <<r.node, NullNode>>)

ifStatement(p) ==
    Node("IfStatement",
         ElseBranch(ThenBranch(
             Expect(Condition(consume(p, "LEFT_PAREN", "Expect '(' after 'if'.")),
                    "RIGHT_PAREN", "Expect ')' after if condition."))))

\* while (!check(RIGHT_BRACE) && !isAtEnd()) statements.push(declaration());
\* a declaration that failed is pushed as null
BlockLoop(p, statements) ==
    IF ~check(p, "RIGHT_BRACE") /\ ~isAtEnd(p)
    THEN BlockPush(statements, declaration(p))
    ELSE Ok(p, statements)

BlockPush(statements, d) == BlockLoop(d.p, Append(statements, d.node))

\* block(): the node of the result is the list of statements
block(p) == Expect(BlockLoop(p, <<>>), "RIGHT_BRACE", "Expect '}' after block.")

statement(p) ==
    IF matches(p, {"IF"}) THEN ifStatement(advance(p))
    ELSE IF matches(p, {"PRINT"}) THEN printStatement(advance(p))
    ELSE IF matches(p, {"LEFT_BRACE"}) THEN Node("BlockStatement", block(advance(p)))
    ELSE expressionStatement(p)

\* do { ...; parameters.push(consume(IDENTIFIER)); } while (match(COMMA));
ParametersLoop(p, parameters) ==
    ParametersPush(parameters,
                   consume(IF Len(parameters) >= MaxParams
                           THEN error(p, peek(p), "Can't have more than 255 parameters.")
                           ELSE p,
                           "IDENTIFIER", "Expect parameter name."))

ParametersPush(parameters, name) ==
    IF name.thrown THEN name
    ELSE IF matches(name.p, {"COMMA"})
         THEN ParametersLoop(advance(name.p), Append(parameters, name.node))
         ELSE Ok(name.p, Append(parameters, name.node))

\* const parameters = []; if (!this.check(RIGHT_PAREN)) { do ... while ... }
Parameters(r) ==
    IF r.thrown THEN r
    ELSE Pair(r.node, IF ~check(r.p, "RIGHT_PAREN") THEN ParametersLoop(r.p, <<>>)
                      ELSE Ok(r.p, <<>>))

\* const body = this.block();
Body(r) == IF r.thrown THEN r ELSE Pair(r.node, block(r.p))

\* { type: 'FunctionStatement', name, params, body }, and the isStatic that
\* classDeclaration adds
FunctionNode(isStatic, r) ==
    IF r.thrown THEN r
    ELSE Ok(r.p, [type |-> "FunctionStatement", name |-> r.node[1][1],
                  params |-> r.node[1][2], body |-> r.node[2],
                  isStatic |-> isStatic])

\* function(kind), with the isStatic of classDeclaration's { ...method, isStatic }
function(p, isStatic) ==
    FunctionNode(isStatic,
        Body(Expect(Expect(Parameters(
                Expect(consume(p, "IDENTIFIER", "Expect method name."),
                       "LEFT_PAREN", "Expect '(' after method name.")),
             "RIGHT_PAREN", "Expect ')' after parameters."),
             "LEFT_BRACE", "Expect '{' before method body.")))

\* while (!check(RIGHT_BRACE) && !isAtEnd()) { isStatic = match(STATIC); ... }
ClassBodyLoop(p, methods) ==
    IF ~check(p, "RIGHT_BRACE") /\ ~isAtEnd(p)
    THEN MethodPush(methods, function(match(p, {"STATIC"}), matches(p, {"STATIC"})))
    ELSE Ok(p, methods)

MethodPush(methods, method) ==
    IF method.thrown THEN method
    ELSE ClassBodyLoop(method.p, Append(methods, method.node))

\* const methods = []; while ...
Methods(r) == IF r.thrown THEN r ELSE Pair(r.node, ClassBodyLoop(r.p, <<>>))

classDeclaration(p) ==
    Node("ClassStatement",
         Expect(Methods(Expect(consume(p, "IDENTIFIER", "Expect class name."),
                               "LEFT_BRACE", "Expect '{' before class body.")),
                "RIGHT_BRACE", "Expect '}' after class body."))

\* the catch (error) of declaration(): synchronize, and return null
Recovered(r) == IF r.thrown THEN Ok(synchronize(r.p), NullNode) ELSE r

\* the try { ... } of declaration()
declarationTry(p) ==
    IF matches(p, {"CLASS"}) THEN classDeclaration(advance(p))
    ELSE IF matches(p, {"UI"}) THEN uiDeclaration(advance(p))
    ELSE IF matches(p, {"LET"}) THEN varDeclaration(advance(p))
    ELSE statement(p)

declaration(p) == Recovered(declarationTry(p))

RECURSIVE ParseLoop(_, _), ParsePush(_, _)
\* while (!this.isAtEnd()) statements.push(this.declaration());
ParseLoop(p, statements) ==
    IF ~isAtEnd(p) THEN ParsePush(statements, declaration(p))
    ELSE Ok(p, statements)

ParsePush(statements, d) == ParseLoop(d.p, Append(statements, d.node))

\* statements.filter(s => s !== null)
FilterNulls(statements) == SelectSeq(statements, LAMBDA s : s # NullNode)

\* Parser.parse: the parser after it and the statements returned
parse(p) ==
    LET Returned(r) == [p |-> r.p, statements |-> FilterNulls(r.node)]
    IN Returned(ParseLoop(p, <<>>))

(***************************************************************************)
(* Runtime state of one Interpreter.                                       *)
(*   frames   the Environment objects; frame 1 is the globals             *)
(*   env      this.environment                                             *)
(*   insts    the LambdaInstance objects, classes the LambdaClass objects  *)
(*   natives  the NativeInstance shims with their WebCpp objects           *)
(*   out      the lines of console.log by print                            *)
(*   exc      the JS exception being thrown, NoExc when none               *)
(*   lists    the number of JS arrays allocated                            *)
(*   stack, log  history: the user functions being executed (innermost     *)
(*            last) and the events the properties are about                *)
(***************************************************************************)
NoExc == [k |-> "none"]

\* new RuntimeError(token, message)
RuntimeError(token, message) == [k |-> "RuntimeError", token |-> token, message |-> message]

\* the TypeError the JS runtime throws: a property of null or undefined is
\* read, or something that is no function is called
TypeError(message) == [k |-> "TypeError", message |-> message]

\* new Error(message)
JsError(message) == [k |-> "Error", message |-> message]

Ret(st, v) == [st |-> st, v |-> v]

Raise(st, exc) == [st |-> [st EXCEPT !.exc = exc], v |-> Undefined]

Failed(st) == st.exc # NoExc

Logged(st, event) == [st EXCEPT !.log = Append(@, event)]

FunctionV(decl, closure, isInitializer, boundTo) ==
    [t |-> "function", declaration |-> decl, closure |-> closure,
     isInitializer |-> isInitializer,
     \* history: the instance whose property access produced this function
     boundTo |-> boundTo]

\* a native callable {arity, call, toString}; self is the NativeInstance whose
\* property table holds it, 0 for a global
NativeFn(name, self) == [t |-> "native", native |-> name, self |-> self]

NativeInstanceV(n) == [t |-> "nativeInstance", nid |-> n]

(***************************************************************************)
(* Environment (environment.js).                                           *)
(***************************************************************************)
\* new Environment(enclosing): the state with the frame, whose number is
\* Len(st.frames) + 1 before; enclosing 0 is null
NewEnvironment(st, enclosing, kind) ==
    [st EXCEPT !.frames =
        Append(@, [values |-> EmptyMap, enclosing |-> enclosing, kind |-> kind])]

\* a define that keeps the earlier definition of a name the frame has
defineOnce(st, f, name, value) ==
    IF MapHas(st.frames[f].values, name) THEN st
    ELSE [st EXCEPT !.frames[f].values = MapSet(@, name, value)]

define(st, f, name, value) ==
    [st EXCEPT !.frames[f].values = MapSet(@, name, value)]

RECURSIVE DefiningFrame(_, _, _)
\* the walk of get and assign: the first frame from f outwards that has the
\* name, 0 when none has
DefiningFrame(st, f, lexeme) ==
    IF MapHas(st.frames[f].values, lexeme) THEN f
    ELSE IF st.frames[f].enclosing # 0
         THEN DefiningFrame(st, st.frames[f].enclosing, lexeme)
         ELSE 0

get(st, f, name) ==
    LET d == DefiningFrame(st, f, name.lexeme)
    IN IF d # 0 THEN Ret(st, st.frames[d].values[name.lexeme])
       ELSE Raise(st, RuntimeError(name, "Undefined variable '" \o name.lexeme \o "'."))

\* an assign that writes the binding into the frame it starts from, as if
\* that frame held copies of the bindings of the frames around it
assignInPlace(st, f, name, value) ==
    IF DefiningFrame(st, f, name.lexeme) # 0 THEN define(st, f, name.lexeme, value)
    ELSE [st EXCEPT !.exc =
             RuntimeError(name, "Undefined variable '" \o name.lexeme \o "'.")]

\* an assign that defines a global when no frame of the chain has the name
assignOrDefine(st, f, name, value) ==
    IF DefiningFrame(st, f, name.lexeme) # 0
    THEN [st EXCEPT !.frames[DefiningFrame(st, f, name.lexeme)].values[name.lexeme] =
                        value]
    ELSE define(st, 1, name.lexeme, value)

\* an assign that writes the binding of the globals when they have the name
assignGlobalFirst(st, f, name, value) ==
    IF MapHas(st.frames[1].values, name.lexeme)
    THEN [st EXCEPT !.frames[1].values[name.lexeme] = value]
    ELSE IF DefiningFrame(st, f, name.lexeme) # 0
    THEN [st EXCEPT !.frames[DefiningFrame(st, f, name.lexeme)].values[name.lexeme] =
                        value]
    ELSE [st EXCEPT !.exc =
             RuntimeError(name, "Undefined variable '" \o name.lexeme \o "'.")]

assign(st, f, name, value) ==
    LET d == DefiningFrame(st, f, name.lexeme)
    IN IF d # 0 THEN [st EXCEPT !.frames[d].values[name.lexeme] = value]
       ELSE [st EXCEPT !.exc =
                RuntimeError(name, "Undefined variable '" \o name.lexeme \o "'.")]

(***************************************************************************)
(* Numbers: the arithmetic of doubles on fractions.                        *)
(***************************************************************************)
Abs(n) == IF n < 0 THEN -n ELSE n

RECURSIVE Gcd(_, _)
Gcd(a, b) == IF b = 0 THEN a ELSE Gcd(b, a % b)

Sign(n) == IF n > 0 THEN 1 ELSE IF n < 0 THEN -1 ELSE 0

\* n/d in lowest terms; d = 0 gives Infinity, -Infinity or NaN
Fraction(n, d) ==
    IF d = 0 THEN NumQ(Sign(n), 0)
    ELSE LET g == Gcd(Abs(n), Abs(d))
         IN NumQ(Sign(d) * (n \div g), Abs(d) \div g)

IsNaN(a) == a.den = 0 /\ a.num = 0

NumAdd(a, b) ==
    IF a.den = 0 /\ b.den = 0 THEN (IF a.num = b.num THEN a ELSE NumQ(0, 0))
    ELSE IF a.den = 0 THEN a
    ELSE IF b.den = 0 THEN b
    ELSE Fraction(a.num * b.den + b.num * a.den, a.den * b.den)

NumNeg(a) == NumQ(-a.num, a.den)

NumSub(a, b) == NumAdd(a, NumNeg(b))

NumMul(a, b) ==
    IF a.den = 0 \/ b.den = 0 THEN NumQ(Sign(a.num) * Sign(b.num), 0)
    ELSE Fraction(a.num * b.num, a.den * b.den)

NumDiv(a, b) ==
    IF a.den = 0 /\ b.den = 0 THEN NumQ(0, 0)
    ELSE IF b.den = 0 THEN (IF IsNaN(b) THEN b ELSE NumV(0))
    ELSE IF a.den = 0 THEN (IF b.num < 0 THEN NumNeg(a) ELSE a)
    ELSE Fraction(a.num * b.den, a.den * b.num)

\* Number.prototype.toString; a double that is no integer is written as its
\* fraction
NumberToString(a) ==
    IF a.den = 1 THEN ToString(a.num)
    ELSE IF a.den = 0
         THEN (IF a.num > 0 THEN "Infinity" ELSE IF a.num < 0 THEN "-Infinity" ELSE "NaN")
         ELSE ToString(a.num) \o "/" \o ToString(a.den)

(***************************************************************************)
(* Interpreter: helper methods.                                            *)
(***************************************************************************)
\* what JS takes for false in  x && ...,  x || ...,  !x
JsFalsy(v) ==
    \/ v.t \in {"nil", "undefined"}
    \/ v.t = "bool" /\ ~v.b
    \/ v.t = "string" /\ v.s = ""
    \/ v.t = "number" /\ v.num = 0

isTruthy(v) ==
    IF v = Null THEN FALSE
    ELSE IF v.t = "bool" THEN v.b
    ELSE TRUE

\* a === b
StrictEquals(a, b) == IF a.t = "number" /\ IsNaN(a) THEN FALSE ELSE a = b

isEqual(a, b) ==
    IF a = Null /\ b = Null THEN TRUE
    ELSE IF a = Null THEN FALSE
    ELSE StrictEquals(a, b)

\* toString() of the global natives
NativeToString ==
    [clock |-> "<native fn clock>", Window |-> "<native class Window>",
     Button |-> "<native class Button>", Label |-> "<native class Label>",
     IconGrid |-> "<native class IconGrid>", Dock |-> "<native class Dock>",
     AppIcon |-> "<native class AppIcon>",
     BackgroundImage |-> "<native class BackgroundImage>",
     BackgroundColor |-> "<native class BackgroundColor>",
     TabBar |-> "<native class TabBar>", Tab |-> "<native class Tab>",
     len |-> "<native fn len>", get |-> "<native fn get>"]

NativeInstanceToString(n) ==
    CASE n.class = "Window" -> "<ui window: " \o n.text \o ">"
      [] n.class = "Button" -> "<ui button: " \o n.text \o ">"
      [] n.class = "Label" -> "<ui label: " \o n.text \o ">"
      [] n.class = "IconGrid" -> "<ui icongrid>"
      [] n.class = "Dock" -> "<ui dock>"
      [] n.class = "AppIcon" -> "<ui appicon: " \o n.text \o ">"
      [] n.class = "BackgroundImage" -> "<ui background: " \o n.text \o ">"

RECURSIVE ToStringOf(_, _), JoinElements(_, _)
\* object.toString() of a value that is neither null nor undefined
ToStringOf(st, v) ==
    CASE v.t = "number" -> NumberToString(v)
      [] v.t = "string" -> v.s
      [] v.t = "bool" -> IF v.b THEN "true" ELSE "false"
      [] v.t = "list" -> JoinElements(st, v.elems)
      [] v.t = "instance" ->
            "<instance of " \o st.classes[st.insts[v.inst].klass].name \o ">"
      [] v.t = "class" -> "<class " \o st.classes[v.class].name \o ">"
      [] v.t = "function" -> "<fn " \o v.declaration.name.lexeme \o ">"
      [] v.t = "native" ->
            IF v.self = 0 THEN NativeToString[v.native] ELSE "[object Object]"
      [] v.t = "nativeInstance" -> NativeInstanceToString(st.natives[v.nid])

\* Array.prototype.toString: join(","), null and undefined as ""
JoinElements(st, es) ==
    IF es = <<>> THEN ""
    ELSE LET first == IF Head(es).t \in {"nil", "undefined"} THEN ""
                      ELSE ToStringOf(st, Head(es))
         IN IF Len(es) = 1 THEN first
            ELSE first \o "," \o JoinElements(st, Tail(es))

stringify(st, v) ==
    IF v = Null THEN Ret(st, "nil")
    ELSE IF v = Undefined
         THEN Raise(st, TypeError("Cannot read properties of undefined (reading 'toString')"))
         ELSE Ret(st, ToStringOf(st, v))

checkNumberOperand(st, operator, operand) ==
    IF operand.t = "number" THEN st
    ELSE [st EXCEPT !.exc = RuntimeError(operator, "Operand must be a number.")]

checkNumberOperands(st, operator, left, right) ==
    IF left.t = "number" /\ right.t = "number" THEN st
    ELSE [st EXCEPT !.exc = RuntimeError(operator, "Operands must be numbers.")]

(***************************************************************************)
(* The native functions the constructor defines in the globals, and the   *)
(* WebCpp objects behind the UI ones.                                      *)
(***************************************************************************)
\* Date.now() / 1000.0 of the clock native
Now == NumV(1700000000)

\* arity() of the natives; -1 is variadic
NativeArity ==
    [clock |-> 0, Window |-> 1, Button |-> 1, Label |-> -1, IconGrid |-> 0,
     Dock |-> 0, AppIcon |-> 2, BackgroundImage |-> 1, BackgroundColor |-> 1,
     TabBar |-> 0, Tab |-> 2, len |-> 1, get |-> 2,
     add |-> 1, setBackgroundColor |-> 1]

\* the properties of the NativeInstance each UI constructor returns
NativeProperties ==
    [Window |-> {"add", "setBackgroundColor"}, Button |-> {"setBackgroundColor"},
     Label |-> {"setBackgroundColor"}, IconGrid |-> {"add"}, Dock |-> {"add"},
     AppIcon |-> {}, BackgroundImage |-> {}]

\* WebCpp.create<Class>(text) wrapped into the NativeInstance returned
CreateNative(st, class, text) ==
    LET withObject ==
            [st EXCEPT !.natives =
                          Append(@, IF class = "Button"
                                    \* this.eventHandlers = {} of WebCppButton
                                    THEN [class |-> class, text |-> text,
                                          children |-> <<>>, eventHandlers |-> EmptyMap]
                                    ELSE [class |-> class, text |-> text,
                                          children |-> <<>>]),
                       !.rootWindow = IF class = "Window" THEN Len(st.natives) + 1 ELSE @]
    IN Ret(withObject, NativeInstanceV(Len(st.natives) + 1))

\* a constructor whose first statements are  this.stringify(args[i])  for the
\* texts, and which then calls WebCpp.create<Class>
TextConstructor(st, class, args) ==
    LET first == stringify(st, args[1])
        second == IF Len(args) > 1 THEN stringify(first.st, args[2]) ELSE first
    IN IF Failed(first.st) THEN first
       ELSE IF Failed(second.st) THEN second
       ELSE CreateNative(st, class, first.v)

\* nativeX.add(args[0].nativeObject) and the add of the WebCpp object
NativeAdd(st, self, args) ==
    IF args[1].t \in {"nil", "undefined"}
    THEN Raise(st, TypeError("Cannot read properties of " \o args[1].t
                             \o " (reading 'nativeObject')"))
    ELSE IF args[1].t # "nativeInstance"
    THEN Raise(st, TypeError("Cannot read properties of undefined (reading 'toString')"))
    ELSE Ret([st EXCEPT !.natives[self].children = Append(@, args[1].nid)], Undefined)

\* the Label native
NativeLabel(st, args) ==
    IF Len(args) < 1 \/ Len(args) > 2
    THEN Raise(st, RuntimeError(Null, "Label() expects 1 or 2 arguments: (text, [classes])."))
    ELSE LET text == stringify(st, args[1])
         IN IF Failed(text.st) THEN text
            ELSE IF Len(args) = 2 /\ args[2].t # "list"
            THEN Raise(st, RuntimeError(Null,
                           "Second argument to Label() must be a list of strings."))
            ELSE IF Len(args) = 2
                    /\ \E i \in 1..Len(args[2].elems) : args[2].elems[i] = Undefined
            THEN Raise(st, TypeError("Cannot read properties of undefined (reading 'toString')"))
            ELSE CreateNative(st, "Label", text.v)

\* the Tab native: WebCpp has no createTab
NativeTab(st, args) ==
    LET title == stringify(st, args[1])
    IN IF Failed(title.st) THEN title
       ELSE IF JsFalsy(args[2]) \/ args[2].t # "nativeInstance"
       THEN Raise(st, RuntimeError(Null, "Tab() second argument must be a UI component."))
       ELSE Raise(st, TypeError("WebCpp.createTab is not a function"))

\* the len native
NativeLen(st, args) ==
    IF args[1].t # "list"
    THEN Raise(st, RuntimeError(Null, "Argument to len() must be a list."))
    ELSE Ret(st, NumV(Len(args[1].elems)))

\* list[index] || null
ElementOrNull(list, index) ==
    IF index.den = 1 /\ index.num >= 0 /\ index.num < Len(list.elems)
       /\ ~JsFalsy(list.elems[index.num + 1])
    THEN list.elems[index.num + 1]
    ELSE Null

\* the get native
NativeGet(st, args) ==
    IF args[1].t # "list" \/ args[2].t # "number"
    THEN Raise(st, RuntimeError(Null, "get() requires a list and a number index."))
    ELSE Ret(st, ElementOrNull(args[1], args[2]))

\* call(interpreter, args) of a native
NativeCall(st, fn, args) ==
    CASE fn.native = "clock" -> Ret(st, Now)
      [] fn.native \in {"Window", "Button", "AppIcon", "BackgroundImage"} ->
            TextConstructor(st, fn.native, args)
      [] fn.native \in {"IconGrid", "Dock"} -> CreateNative(st, fn.native, "")
      [] fn.native = "Label" -> NativeLabel(st, args)
      [] fn.native = "BackgroundColor" ->
            LET color == stringify(st, args[1])
            IN IF Failed(color.st) THEN color
               ELSE Raise(st, TypeError("WebCpp.createBackgroundColor is not a function"))
      [] fn.native = "TabBar" ->
            Raise(st, TypeError("WebCpp.createTabBar is not a function"))
      [] fn.native = "Tab" -> NativeTab(st, args)
      [] fn.native = "len" -> NativeLen(st, args)
      [] fn.native = "get" -> NativeGet(st, args)
      [] fn.native = "add" -> NativeAdd(st, fn.self, args)
      [] fn.native = "setBackgroundColor" ->
            LET color == stringify(st, args[1])
            IN IF Failed(color.st) THEN color
               ELSE Raise(st, TypeError("setBackgroundColor is not a function"))

GlobalNatives ==
    {"clock", "Window", "Button", "Label", "IconGrid", "Dock", "AppIcon",
     "BackgroundImage", "BackgroundColor", "TabBar", "Tab", "len", "get"}

\* new Interpreter(filePath)
NewInterpreter ==
    [frames |-> <<[values |-> [n \in GlobalNatives |-> NativeFn(n, 0)],
                   enclosing |-> 0, kind |-> "globals"]>>,
     env |-> 1, insts |-> <<>>, classes |-> <<>>, natives |-> <<>>,
     rootWindow |-> 0, lists |-> 0, out |-> <<>>, exc |-> NoExc,
     stack |-> <<>>, log |-> <<>>]

(***************************************************************************)
(* Classes, instances and user functions.                                  *)
(***************************************************************************)
\* LambdaClass.findMethod / findStaticMethod: Undefined stands for the null
\* returned when the table has no such method
findMethod(st, class, name) ==
    IF MapHas(st.classes[class].methods, name)
    THEN st.classes[class].methods[name] ELSE Undefined

findStaticMethod(st, class, name) ==
    IF MapHas(st.classes[class].staticMethods, name)
    THEN st.classes[class].staticMethods[name] ELSE Undefined

\* a bind that defines this in the closure itself, with no frame of its own
bindInClosure(st, fn, instance) ==
    Ret(define(st, fn.closure, "this", InstV(instance)),
        FunctionV(fn.declaration, fn.closure, fn.isInitializer, instance))

\* LambdaFunction.bind(instance)
bind(st, fn, instance) ==
    LET environment == Len(st.frames) + 1
    IN Ret(define(NewEnvironment(st, fn.closure, "bind"), environment, "this",
                  InstV(instance)),
           FunctionV(fn.declaration, environment, fn.isInitializer, instance))

\* a get that looks in the methods of the class before the fields
InstanceGetMethodFirst(st, instance, name) ==
    LET method == findMethod(st, st.insts[instance].klass, name.lexeme)
    IN IF method # Undefined THEN bind(st, method, instance)
       ELSE IF MapHas(st.insts[instance].fields, name.lexeme)
       THEN Ret(st, st.insts[instance].fields[name.lexeme])
       ELSE Raise(st, RuntimeError(name, "Undefined property '" \o name.lexeme \o "'."))

\* LambdaInstance.get(name)
InstanceGet(st, instance, name) ==
    IF MapHas(st.insts[instance].fields, name.lexeme)
    THEN Ret(st, st.insts[instance].fields[name.lexeme])
    ELSE LET method == findMethod(st, st.insts[instance].klass, name.lexeme)
         IN IF method # Undefined THEN bind(st, method, instance)
            ELSE Raise(st, RuntimeError(name,
                           "Undefined property '" \o name.lexeme \o "'."))

\* a set that keeps the fields in the class: every instance of the class of
\* the instance gets the field
InstanceSetInClass(st, instance, name, value) ==
    [st EXCEPT !.insts =
        [i \in DOMAIN @ |->
            IF @[i].klass = @[instance].klass
            THEN [@[i] EXCEPT !.fields = MapSet(@, name.lexeme, value)]
            ELSE @[i]]]

\* LambdaInstance.set(name, value)
InstanceSet(st, instance, name, value) ==
    [st EXCEPT !.insts[instance].fields = MapSet(@, name.lexeme, value)]

(***************************************************************************)
(* Interpreter: the visitors.  A statement visitor returns the state       *)
(* after it, an expression visitor the state and the value.                *)
(***************************************************************************)
RECURSIVE execute(_, _), evaluate(_, _), executeBlock(_, _, _),
          ExecuteStatements(_, _), EvaluateElements(_, _, _),
          LambdaFunctionCall(_, _, _), visitCallExpression(_, _),
          Instantiate(_, _, _), RunInitializer(_, _, _, _)

\* for (const statement of statements) this.execute(statement);
ExecuteStatements(st, statements) ==
    IF statements = <<>> THEN st
    ELSE LET after == execute(st, Head(statements))
         IN IF Failed(after) THEN after
            ELSE ExecuteStatements(after, Tail(statements))

\* executeBlock without its finally: the frame of the block stays current
executeBlockNoRestore(st, statements, environment) ==
    ExecuteStatements([st EXCEPT !.env = environment], statements)

\* executeBlock with the restore after the loop in place of the finally
executeBlockRestoreOnSuccess(st, statements, environment) ==
    LET before == st.env
        after == ExecuteStatements([st EXCEPT !.env = environment], statements)
    IN IF Failed(after) THEN after ELSE [after EXCEPT !.env = before]

\* try { this.environment = environment; ... } finally { this.environment = previous; }
executeBlock(st, statements, environment) ==
    LET before == st.env
        after == ExecuteStatements([st EXCEPT !.env = environment], statements)
    IN [after EXCEPT !.env = before]

\* the evaluation of a list of expressions from left to right; v is the
\* sequence of the values
EvaluateElements(st, exprs, values) ==
    IF exprs = <<>> THEN Ret(st, values)
    ELSE LET e == evaluate(st, Head(exprs))
         IN IF Failed(e.st) THEN e
            ELSE EvaluateElements(e.st, Tail(exprs), Append(values, e.v))

\* environment.define(params[i].lexeme, args[i]) for every parameter
DefineParameters(st, f, params, args) ==
    [st EXCEPT !.frames[f].values =
        [n \in {params[i].lexeme : i \in 1..Len(params)} |->
            LET last == CHOOSE i \in 1..Len(params) :
                           /\ params[i].lexeme = n
                           /\ \A j \in (i + 1)..Len(params) : params[j].lexeme # n
            IN IF last <= Len(args) THEN args[last] ELSE Undefined]]

\* LambdaFunction.call(interpreter, args)
LambdaFunctionCall(st, fn, args) ==
    LET environment == Len(st.frames) + 1
        entered ==
            Logged([DefineParameters(NewEnvironment(st, fn.closure, "call"),
                                     environment, fn.declaration.params, args)
                       EXCEPT !.stack = Append(@, [name |-> fn.declaration.name.lexeme,
                                                   boundTo |-> fn.boundTo])],
                   [ev |-> "call", name |-> fn.declaration.name.lexeme,
                    boundTo |-> fn.boundTo, frame |-> environment])
        body == executeBlock(entered, fn.declaration.body, environment)
        left == [body EXCEPT !.stack = SubSeq(@, 1, Len(@) - 1)]
        \* catch (returnValue): every exception that leaves the body is caught
        caught == Logged([left EXCEPT !.exc = NoExc],
                         [ev |-> "caught", name |-> fn.declaration.name.lexeme,
                          exc |-> left.exc])
    IN IF Failed(left)
       THEN IF fn.isInitializer THEN get(caught, fn.closure, [lexeme |-> "this"])
            \* returnValue.value of an Error object
            ELSE Ret(caught, Undefined)
       ELSE IF fn.isInitializer THEN get(left, fn.closure, [lexeme |-> "this"])
       ELSE Ret(left, Null)

\* an initializer that is run a second time
RunInitializerTwice(st, initializer, instance, args) ==
    LET bound == bind(st, initializer, instance)
    IN LambdaFunctionCall(LambdaFunctionCall(bound.st, bound.v, args).st,
                          bound.v, args).st

\* initializer.bind(instance).call(this, args), its value dropped
RunInitializer(st, initializer, instance, args) ==
    LET bound == bind(st, initializer, instance)
    IN LambdaFunctionCall(bound.st, bound.v, args).st

\* the branch of visitCallExpression for a callee that is a LambdaClass
Instantiate(st, class, args) ==
    LET instance == Len(st.insts) + 1
        created == Logged([st EXCEPT !.insts =
                              Append(@, [klass |-> class, fields |-> EmptyMap])],
                          [ev |-> "new", inst |-> instance, class |-> class])
        initializer == findMethod(st, class, "init")
        after == IF initializer # Undefined
                 THEN RunInitializer(created, initializer, instance, args)
                 ELSE created
    IN IF Failed(after) THEN Ret(after, Undefined) ELSE Ret(after, InstV(instance))

\* expr.callee.name, undefined for a callee without a name
CalleeName(expr) ==
    IF "name" \in DOMAIN expr.callee THEN expr.callee.name ELSE Undefined

\* a call that compares the counts for the natives only, and enters a
\* function of a class with any number of arguments
visitCallExpressionNativeArityOnly(st, expr) ==
    LET callee == evaluate(st, expr.callee)
        args == EvaluateElements(callee.st, expr.arguments, <<>>)
    IN IF Failed(callee.st) THEN callee
       ELSE IF Failed(args.st) THEN args
       ELSE IF callee.v.t = "class" THEN Instantiate(args.st, callee.v.class, args.v)
       ELSE IF callee.v.t \in {"nil", "undefined"}
       THEN Raise(args.st, TypeError("Cannot read properties of "
                                     \o (IF callee.v.t = "nil" THEN "null" ELSE "undefined")
                                     \o " (reading 'call')"))
       ELSE IF callee.v.t \notin {"function", "native"}
       THEN Raise(args.st, RuntimeError(CalleeName(expr),
                                        "Can only call functions and classes."))
       ELSE IF callee.v.t = "function"
       THEN LambdaFunctionCall(args.st, callee.v, args.v)
       ELSE IF NativeArity[callee.v.native] >= 0
               /\ Len(args.v) # NativeArity[callee.v.native]
       THEN Raise(args.st,
                  RuntimeError(IF CalleeName(expr) # Undefined THEN CalleeName(expr)
                               ELSE expr.callee,
                               "Expected " \o ToString(NativeArity[callee.v.native])
                               \o " arguments but got " \o ToString(Len(args.v)) \o "."))
       ELSE NativeCall(args.st, callee.v, args.v)

visitCallExpression(st, expr) ==
    LET callee == evaluate(st, expr.callee)
        args == EvaluateElements(callee.st, expr.arguments, <<>>)
        arity == IF callee.v.t = "function" THEN Len(callee.v.declaration.params)
                 ELSE NativeArity[callee.v.native]
    IN IF Failed(callee.st) THEN callee
       ELSE IF Failed(args.st) THEN args
       ELSE IF callee.v.t = "class" THEN Instantiate(args.st, callee.v.class, args.v)
       ELSE IF callee.v.t \in {"nil", "undefined"}
       THEN Raise(args.st, TypeError("Cannot read properties of "
                                     \o (IF callee.v.t = "nil" THEN "null" ELSE "undefined")
                                     \o " (reading 'call')"))
       ELSE IF callee.v.t \notin {"function", "native"}
       THEN Raise(args.st, RuntimeError(CalleeName(expr),
                                        "Can only call functions and classes."))
       ELSE IF arity >= 0 /\ Len(args.v) # arity
       THEN Raise(args.st,
                  RuntimeError(IF CalleeName(expr) # Undefined THEN CalleeName(expr)
                               ELSE expr.callee,
                               "Expected " \o ToString(arity) \o " arguments but got "
                               \o ToString(Len(args.v)) \o "."))
       ELSE IF callee.v.t = "function"
       THEN LambdaFunctionCall(args.st, callee.v, args.v)
       ELSE NativeCall(args.st, callee.v, args.v)

visitIfStatement(st, stmt) ==
    LET condition == evaluate(st, stmt.condition)
    IN IF Failed(condition.st) THEN condition.st
       ELSE IF isTruthy(condition.v) THEN execute(condition.st, stmt.thenBranch)
       ELSE IF stmt.elseBranch # NullNode THEN execute(condition.st, stmt.elseBranch)
       ELSE condition.st

\* visitVarStatement, and visitUiStatement which has the same body
visitVarStatement(st, stmt) ==
    LET value == IF stmt.initializer # NullNode THEN evaluate(st, stmt.initializer)
                 ELSE Ret(st, Null)
    IN IF Failed(value.st) THEN value.st
       ELSE define(value.st, value.st.env, stmt.name.lexeme, value.v)

\* the Map that the loop of visitClassStatement fills for isStatic = static:
\* a later method replaces an earlier one of its name
MethodTable(methods, static, closure) ==
    LET mine == {i \in 1..Len(methods) : methods[i].isStatic = static}
    IN [n \in {methods[i].name.lexeme : i \in mine} |->
           LET last == CHOOSE i \in mine :
                          /\ methods[i].name.lexeme = n
                          /\ \A j \in mine : methods[j].name.lexeme = n => j <= i
           IN FunctionV(methods[last], closure, n = "init", 0)]

visitClassStatement(st, stmt) ==
    LET declared == define(st, st.env, stmt.name.lexeme, Null)
        class == Len(st.classes) + 1
        klass == [name |-> stmt.name.lexeme,
                  methods |-> MethodTable(stmt.methods, FALSE, st.env),
                  staticMethods |-> MethodTable(stmt.methods, TRUE, st.env)]
    IN assign([declared EXCEPT !.classes = Append(@, klass)], st.env, stmt.name,
              ClassV(class))

visitBlockStatement(st, stmt) ==
    executeBlock(NewEnvironment(st, st.env, "block"), stmt.statements,
                 Len(st.frames) + 1)

visitExpressionStatement(st, stmt) == evaluate(st, stmt.expression).st

visitPrintStatement(st, stmt) ==
    LET value == evaluate(st, stmt.expression)
        text == stringify(value.st, value.v)
    IN IF Failed(value.st) THEN value.st
       ELSE IF Failed(text.st) THEN text.st
       ELSE [value.st EXCEPT !.out = Append(@, text.v)]

\* the callbackFunction of visitHandleStatement; registeredIn is history:
\* the frame that was this.environment when the statement was executed
HandlerV(stmt, registeredIn) ==
    [t |-> "handler", body |-> stmt.body, event |-> stmt.eventName.lexeme,
     registeredIn |-> registeredIn]

\* typeof nativeObject.setEventHandler === 'function': WebCppButton alone
\* has the method
HasSetEventHandler(object) == "eventHandlers" \in DOMAIN object

\* WebCppButton.setEventHandler(eventName, callback)
setEventHandler(st, nid, eventName, callback) ==
    [st EXCEPT !.natives[nid].eventHandlers = MapSet(@, eventName, callback)]

visitHandleStatement(st, stmt) ==
    LET component == get(st, st.env, stmt.componentName)
        eventName == stmt.eventName.lexeme
    IN IF Failed(component.st) THEN component.st
       ELSE IF component.v.t = "nativeInstance"
       THEN IF HasSetEventHandler(st.natives[component.v.nid])
            THEN setEventHandler(st, component.v.nid, eventName, HandlerV(stmt, st.env))
            ELSE [st EXCEPT !.exc =
                     RuntimeError(stmt.componentName,
                         "UI component '" \o stmt.componentName.lexeme
                         \o "' does not support event handling for '"
                         \o eventName \o "'.")]
       ELSE [st EXCEPT !.exc =
                RuntimeError(stmt.componentName,
                    "Cannot attach event handler to non-UI component '"
                    \o stmt.componentName.lexeme \o "'.")]

\* callbackFunction.call(interpreter, args):
\* interpreter.executeBlock(stmt.body, new Environment(this.environment)),
\* which is what visitBlockStatement does for a block of these statements
HandlerCall(st, handler) ==
    execute(Logged(st, [ev |-> "handler", event |-> handler.event,
                        frame |-> Len(st.frames) + 1,
                        registeredIn |-> handler.registeredIn]),
            [type |-> "BlockStatement", statements |-> handler.body])

StatementVisitors ==
    {"IfStatement", "HandleStatement", "VarStatement", "UiStatement", "ClassStatement",
     "BlockStatement", "ExpressionStatement", "PrintStatement"}

execute(st, stmt) ==
    IF stmt = NullNode
    THEN [st EXCEPT !.exc = TypeError("Cannot read properties of null (reading 'type')")]
    ELSE IF stmt.type \notin StatementVisitors
    THEN [st EXCEPT !.exc = JsError("No visitor method for statement type: " \o stmt.type)]
    ELSE CASE stmt.type = "IfStatement" -> visitIfStatement(st, stmt)
           [] stmt.type = "HandleStatement" -> visitHandleStatement(st, stmt)
           [] stmt.type \in {"VarStatement", "UiStatement"} -> visitVarStatement(st, stmt)
           [] stmt.type = "ClassStatement" -> visitClassStatement(st, stmt)
           [] stmt.type = "BlockStatement" -> visitBlockStatement(st, stmt)
           [] stmt.type = "ExpressionStatement" -> visitExpressionStatement(st, stmt)
           [] stmt.type = "PrintStatement" -> visitPrintStatement(st, stmt)

visitListLiteralExpression(st, expr) ==
    LET elements == EvaluateElements(st, expr.elements, <<>>)
    IN IF Failed(elements.st) THEN elements
       ELSE Ret([elements.st EXCEPT !.lists = @ + 1],
                ListV(elements.v, elements.st.lists + 1))

visitVariableExpression(st, expr) == get(st, st.env, expr.name)

visitAssignExpression(st, expr) ==
    LET value == evaluate(st, expr.value)
    IN IF Failed(value.st) THEN value
       ELSE Ret(assign(value.st, value.st.env, expr.name, value.v), value.v)

visitUnaryExpression(st, expr) ==
    LET right == evaluate(st, expr.right)
        checked == checkNumberOperand(right.st, expr.operator, right.v)
    IN IF Failed(right.st) THEN right
       ELSE CASE expr.operator.type = "BANG" -> Ret(right.st, BoolV(~isTruthy(right.v)))
              [] expr.operator.type = "MINUS" ->
                    IF Failed(checked) THEN Ret(checked, Undefined)
                    ELSE Ret(right.st, NumNeg(right.v))
              [] OTHER -> Ret(right.st, Null)

\* a switch whose + is the + of JavaScript on a number and a string: the
\* number is converted and the texts are concatenated
BinaryOperationCoercing(st, operator, left, right) ==
    LET checked == checkNumberOperands(st, operator, left, right)
    IN CASE operator.type = "PLUS" ->
              IF left.t = "number" /\ right.t = "number" THEN Ret(st, NumAdd(left, right))
              ELSE IF left.t = "string" /\ right.t = "string"
              THEN Ret(st, StrV(left.s \o right.s))
              ELSE IF left.t = "number" /\ right.t = "string"
              THEN Ret(st, StrV(NumberToString(left) \o right.s))
              ELSE IF left.t = "string" /\ right.t = "number"
              THEN Ret(st, StrV(left.s \o NumberToString(right)))
              ELSE Raise(st, RuntimeError(operator,
                             "Operands must be two numbers or two strings."))
         [] operator.type = "MINUS" ->
              IF Failed(checked) THEN Ret(checked, Undefined)
              ELSE Ret(st, NumSub(left, right))
         [] operator.type = "STAR" ->
              IF Failed(checked) THEN Ret(checked, Undefined)
              ELSE Ret(st, NumMul(left, right))
         [] operator.type = "SLASH" ->
              IF Failed(checked) THEN Ret(checked, Undefined)
              ELSE Ret(st, NumDiv(left, right))
         [] operator.type = "EQUAL_EQUAL" -> Ret(st, BoolV(isEqual(left, right)))
         [] operator.type = "BANG_EQUAL" -> Ret(st, BoolV(~isEqual(left, right)))
         [] OTHER -> Ret(st, Null)

\* the switch of visitBinaryExpression on the operator, both operands known
BinaryOperation(st, operator, left, right) ==
    LET checked == checkNumberOperands(st, operator, left, right)
    IN CASE operator.type = "PLUS" ->
              IF left.t = "number" /\ right.t = "number" THEN Ret(st, NumAdd(left, right))
              ELSE IF left.t = "string" /\ right.t = "string"
              THEN Ret(st, StrV(left.s \o right.s))
              ELSE Raise(st, RuntimeError(operator,
                             "Operands must be two numbers or two strings."))
         [] operator.type = "MINUS" ->
              IF Failed(checked) THEN Ret(checked, Undefined)
              ELSE Ret(st, NumSub(left, right))
         [] operator.type = "STAR" ->
              IF Failed(checked) THEN Ret(checked, Undefined)
              ELSE Ret(st, NumMul(left, right))
         [] operator.type = "SLASH" ->
              IF Failed(checked) THEN Ret(checked, Undefined)
              ELSE Ret(st, NumDiv(left, right))
         [] operator.type = "EQUAL_EQUAL" -> Ret(st, BoolV(isEqual(left, right)))
         [] operator.type = "BANG_EQUAL" -> Ret(st, BoolV(~isEqual(left, right)))
         [] OTHER -> Ret(st, Null)

visitBinaryExpression(st, expr) ==
    LET left == evaluate(st, expr.left)
        right == evaluate(left.st, expr.right)
    IN IF Failed(left.st) THEN left
       ELSE IF Failed(right.st) THEN right
       ELSE BinaryOperation(right.st, expr.operator, left.v, right.v)

visitGetExpression(st, expr) ==
    LET object == evaluate(st, expr.object)
        staticMethod == findStaticMethod(object.st, object.v.class, expr.name.lexeme)
    IN IF Failed(object.st) THEN object
       ELSE IF object.v.t = "class"
       THEN IF staticMethod # Undefined THEN Ret(object.st, staticMethod)
            ELSE Raise(object.st, RuntimeError(expr.name,
                       "Undefined static method '" \o expr.name.lexeme \o "'."))
       ELSE IF object.v.t = "nativeInstance"
               /\ expr.name.lexeme \in NativeProperties[object.st.natives[object.v.nid].class]
       THEN Ret(object.st, NativeFn(expr.name.lexeme, object.v.nid))
       ELSE IF object.v.t = "instance"
       THEN InstanceGet(object.st, object.v.inst, expr.name)
       ELSE Raise(object.st, RuntimeError(expr.name,
                             "Only instances or classes can have properties."))

visitSetExpression(st, expr) ==
    LET object == evaluate(st, expr.object)
        value == evaluate(object.st, expr.value)
    IN IF Failed(object.st) THEN object
       ELSE IF object.v.t # "instance"
       THEN Raise(object.st, RuntimeError(expr.name, "Only instances have fields."))
       ELSE IF Failed(value.st) THEN value
       ELSE Ret(InstanceSet(value.st, object.v.inst, expr.name, value.v), value.v)

visitThisExpression(st, expr) ==
    LET this == get(st, st.env, expr.keyword)
    IN Ret(Logged(this.st,
                  [ev |-> "this", value |-> this.v,
                   boundTo |-> IF st.stack = <<>> THEN 0
                               ELSE st.stack[Len(st.stack)].boundTo]),
           this.v)

ExpressionVisitors ==
    {"LiteralExpression", "ListLiteralExpression", "VariableExpression",
     "AssignExpression", "UnaryExpression", "BinaryExpression", "GetExpression",
     "SetExpression", "CallExpression", "ThisExpression"}

evaluate(st, expr) ==
    IF expr.type \notin ExpressionVisitors
    THEN Raise(st, JsError("No visitor method for expression type: " \o expr.type))
    ELSE CASE expr.type = "LiteralExpression" -> Ret(st, expr.value)
           [] expr.type = "ListLiteralExpression" -> visitListLiteralExpression(st, expr)
           [] expr.type = "VariableExpression" -> visitVariableExpression(st, expr)
           [] expr.type = "AssignExpression" -> visitAssignExpression(st, expr)
           [] expr.type = "UnaryExpression" -> visitUnaryExpression(st, expr)
           [] expr.type = "BinaryExpression" -> visitBinaryExpression(st, expr)
           [] expr.type = "GetExpression" -> visitGetExpression(st, expr)
           [] expr.type = "SetExpression" -> visitSetExpression(st, expr)
           [] expr.type = "CallExpression" -> visitCallExpression(st, expr)
           [] expr.type = "ThisExpression" -> visitThisExpression(st, expr)

(***************************************************************************)
(* The run of one source text: run(source) of main.js (entry "main") and   *)
(* of the sample driver (entry "sample").                                  *)
(***************************************************************************)
VARIABLES
    source,       \* the text handed to run, one character per element
    entry,        \* which run function runs it
    pc,           \* the position of run
    lexer,        \* the Lexer of this run
    parser,       \* the Parser of this run
    statements,   \* what parser.parse() returned
    interpreter,  \* the Interpreter of this run
    idx,          \* the position of interpret's loop over the statements
    stderr,       \* the lines written with console.error
    escaped,      \* the exception that left interpret(), NoExc if none
    preview,      \* main.js wrote preview.html
    diagnostics   \* the lists the language server sent with sendDiagnostics

vars == <<source, entry, pc, lexer, parser, statements, interpreter, idx,
          stderr, escaped, preview, diagnostics>>

Entries == {"main", "sample"}

\* v.length as JS reads it: a number has no such property
LengthProperty(v) ==
    CASE v.t = "string" -> NumV(Len(v.s))
      [] v.t = "list" -> NumV(Len(v.elems))
      [] OTHER -> Undefined

\* v > 0 as JS compares: undefined becomes NaN and every comparison with NaN
\* is false
GreaterThanZero(v) == v.t = "number" /\ v.den # 0 /\ v.num > 0

\* the condition under which run stops before it makes an Interpreter
ParseErrorsBlock(e, p) ==
    IF e = "main" THEN GreaterThanZero(LengthProperty(NumV(p.errors)))
    ELSE GreaterThanZero(NumV(p.errors))

\* the line interpret's handler prints for a RuntimeError
Report(thrown) ==
    "[" \o (IF "line" \in DOMAIN thrown.token THEN ToString(thrown.token.line)
            ELSE "undefined") \o "] RuntimeError: " \o thrown.message

\* renderPreview() of run in main.js, and whether its html is written
RenderPreview(e, st) == e = "main" /\ st.rootWindow # 0

RECURSIVE Lines(_, _)
\* the first n texts of f, one after the other
Lines(f, n) == IF n = 0 THEN <<>> ELSE Lines(f, n - 1) \o f[n]

\* the texts made of a prelude and then at most MaxFragments lines of a menu
Programs(prelude, menu) ==
    {prelude \o Lines(f, n) : f \in [1..MaxFragments -> menu], n \in 0..MaxFragments}

InitWith(prelude, menu) ==
    /\ source \in Programs(prelude, menu)
    /\ entry \in Entries
    /\ pc = "lex"
    /\ lexer = NewLexer(source)
    /\ parser = NewParser(<<>>)
    /\ statements = <<>>
    /\ interpreter = NewInterpreter
    /\ idx = 0
    /\ stderr = <<>>
    /\ escaped = NoExc
    /\ preview = FALSE
    /\ diagnostics = <<>>

\* const tokens = lexer.scanTokens();
Lex ==
    /\ pc = "lex"
    /\ lexer' = scanTokens(NewLexer(source))
    /\ pc' = "parse"
    /\ UNCHANGED <<source, diagnostics, entry, parser, statements, interpreter, idx, stderr,
                   escaped, preview>>

\* const parser = new Parser(tokens); const statements = parser.parse();
Parse ==
    /\ pc = "parse"
    /\ LET parsed == parse(NewParser(lexer.tokens))
       IN /\ parser' = parsed.p
          /\ statements' = parsed.statements
    /\ pc' = "gate"
    /\ UNCHANGED <<source, diagnostics, entry, lexer, interpreter, idx, stderr, escaped, preview>>

\* the check of the parser's errors, then  new Interpreter()  and the entry
\* into interpret(statements)
Gate ==
    /\ pc = "gate"
    /\ IF ParseErrorsBlock(entry, parser)
       THEN /\ stderr' = Append(stderr, "Execution halted due to parsing errors.")
            /\ pc' = "halted"
            /\ UNCHANGED <<interpreter, idx>>
       ELSE /\ interpreter' = NewInterpreter
            /\ idx' = 1
            /\ pc' = "interpret"
            /\ UNCHANGED stderr
    /\ UNCHANGED <<source, diagnostics, entry, lexer, parser, statements, escaped, preview>>

\* one round of the loop of interpret:  this.execute(statement)
Execute ==
    /\ pc = "interpret"
    /\ idx <= Len(statements)
    /\ interpreter' = execute(interpreter, statements[idx])
    /\ IF Failed(interpreter') THEN pc' = "catch" /\ idx' = idx
       ELSE pc' = pc /\ idx' = idx + 1
    /\ UNCHANGED <<source, diagnostics, entry, lexer, parser, statements, stderr, escaped, preview>>

\* the loop of interpret is over: interpret returns, and run goes on to its end
Return ==
    /\ pc = "interpret"
    /\ idx > Len(statements)
    /\ pc' = "done"
    /\ preview' = RenderPreview(entry, interpreter)
    /\ UNCHANGED <<source, diagnostics, entry, lexer, parser, statements, interpreter, idx,
                   stderr, escaped>>

\* the handler of interpret.  Reading .line of a token that is null or
\* undefined throws a TypeError inside the handler, which leaves interpret;
\* runFile of main.js catches it, the sample driver does not.
Catch ==
    /\ pc = "catch"
    /\ LET thrown == interpreter.exc
       IN IF thrown.k = "RuntimeError" /\ thrown.token \in {Null, Undefined}
          THEN /\ escaped' = TypeError("Cannot read properties of null (reading 'line')")
               /\ pc' = "escaped"
               /\ stderr' = IF entry = "main"
                            THEN Append(stderr, "Could not read file")
                            ELSE stderr
               /\ UNCHANGED preview
          ELSE /\ stderr' = Append(stderr,
                                IF thrown.k = "RuntimeError" THEN Report(thrown)
                                ELSE "An unexpected error occurred: " \o thrown.message)
               /\ pc' = "done"
               /\ preview' = RenderPreview(entry, interpreter)
               /\ UNCHANGED escaped
    /\ UNCHANGED <<source, diagnostics, entry, lexer, parser, statements, interpreter, idx>>

Next == Lex \/ Parse \/ Gate \/ Execute \/ Return \/ Catch

(***************************************************************************)
(* Scripts: statements that succeed, statements that raise a RuntimeError  *)
(* with and without a token, a syntax error and two lexical errors.        *)
(***************************************************************************)
\*   print 1;
PrintOne ==
    <<"p", "r", "i", "n", "t", " ", "1", ";", "\n">>

\*   let a = 2;
LetA ==
    <<"l", "e", "t", " ", "a", " ", "=", " ", "2", ";", "\n">>

\*   print a;
PrintA ==
    <<"p", "r", "i", "n", "t", " ", "a", ";", "\n">>

\*   a = 3;
AssignA ==
    <<"a", " ", "=", " ", "3", ";", "\n">>

\*   len(1);
LenOfNumber ==
    <<"l", "e", "n", "(", "1", ")", ";", "\n">>

\*   1();
CallOfNumber ==
    <<"1", "(", ")", ";", "\n">>

\*   print ;
PrintNothing ==
    <<"p", "r", "i", "n", "t", " ", ";", "\n">>

\*   @
StrayCharacter ==
    <<"@", "\n">>

\*   let s = "abc
OpenString ==
    <<"l", "e", "t", " ", "s", " ", "=", " ", "\"", "a", "b", "c", "\n">>

RunMenu ==
    {PrintOne, LetA, PrintA, AssignA, LenOfNumber, CallOfNumber, PrintNothing,
     StrayCharacter, OpenString}

Init == InitWith(<<>>, RunMenu)

Spec == Init /\ [][Next]_vars

(***************************************************************************)
(* Properties of interpret and of run.                                     *)
(***************************************************************************)
\* run has entered interpret(statements)
Interpreted == pc \in {"interpret", "catch", "done", "escaped"}

\* C1: interpret executes the statements in list order; when statement k
\* raises a RuntimeError, the handler reports that error once, no statement
\* after k is executed and every effect made before is kept as it was.
C1_OrderedHaltReportOnce ==
    [][/\ idx' \in {idx, idx + 1}
       /\ (pc = "catch" /\ interpreter.exc.k = "RuntimeError") =>
              /\ pc' = "done"
              /\ idx' = idx
              /\ stderr' = Append(stderr, Report(interpreter.exc))
              /\ interpreter'.out = interpreter.out
              /\ interpreter'.frames = interpreter.frames
              /\ interpreter'.insts = interpreter.insts]_vars

\* a RuntimeError that carries a token was reported, after an earlier
\* statement had printed and bound a name
C1_Reported ==
    /\ pc = "done"
    /\ interpreter.exc.k = "RuntimeError"
    /\ Len(stderr) = 1
    /\ idx > 1 /\ idx < Len(statements)
    /\ interpreter.out # <<>>

\* C3: every RuntimeError that reaches the handler of interpret carries a
\* token with a line, and no exception leaves interpret.
C3_TokenWithLine ==
    /\ (pc = "catch" /\ interpreter.exc.k = "RuntimeError") =>
           "line" \in DOMAIN interpreter.exc.token
    /\ escaped = NoExc

\* C4: a source for which the parser counted an error is not interpreted.
C4_ParseErrorsBlock == parser.errors > 0 => ~Interpreted

\* the run of the sample driver stops at a parse error
C4_Halted == pc = "halted" /\ parser.errors > 0 /\ entry = "sample"

\* C5: a source for which the lexer reported an error is not interpreted.
C5_LexErrorsBlock == lexer.errors # <<>> => ~Interpreted

(***************************************************************************)
(* Scripts with blocks: declarations that shadow, assignments to names of  *)
(* enclosing frames, reads after the block.                                *)
(***************************************************************************)
\*   let a = 1;
LetOuter ==
    <<"l", "e", "t", " ", "a", " ", "=", " ", "1", ";", "\n">>

\*   { let a = 2; print a; }
ShadowBlock ==
    <<"{", " ", "l", "e", "t", " ", "a", " ", "=", " ", "2", ";", " ", "p",
      "r", "i", "n", "t", " ", "a", ";", " ", "}", "\n">>

\*   { a = 4; let b = 3; print b; }
AssignBlock ==
    <<"{", " ", "a", " ", "=", " ", "4", ";", " ", "l", "e", "t", " ", "b",
      " ", "=", " ", "3", ";", " ", "p", "r", "i", "n", "t", " ", "b", ";",
      " ", "}", "\n">>

\*   print a;
PrintOuter ==
    <<"p", "r", "i", "n", "t", " ", "a", ";", "\n">>

\*   print b;
PrintInner ==
    <<"p", "r", "i", "n", "t", " ", "b", ";", "\n">>

\*   { let c = 5; { c = 6; let a = 7; } print c; print a; }
NestedBlock ==
    <<"{", " ", "l", "e", "t", " ", "c", " ", "=", " ", "5", ";", " ", "{",
      " ", "c", " ", "=", " ", "6", ";", " ", "l", "e", "t", " ", "a", " ",
      "=", " ", "7", ";", " ", "}", " ", "p", "r", "i", "n", "t", " ", "c",
      ";", " ", "p", "r", "i", "n", "t", " ", "a", ";", " ", "}", "\n">>

\*   { let a = 8; a = 9; print a; }
ShadowAssignBlock ==
    <<"{", " ", "l", "e", "t", " ", "a", " ", "=", " ", "8", ";", " ", "a",
      " ", "=", " ", "9", ";", " ", "p", "r", "i", "n", "t", " ", "a", ";",
      " ", "}", "\n">>

BlockMenu ==
    {LetOuter, ShadowBlock, AssignBlock, PrintOuter, PrintInner, NestedBlock,
     ShadowAssignBlock}

InitBlock == InitWith(<<>>, BlockMenu)

SpecBlock == InitBlock /\ [][Next]_vars

(***************************************************************************)
(* Block scoping as the specification words it: a stack of scopes, the     *)
(* innermost last; a block pushes a scope and pops it at its exit.         *)
(***************************************************************************)
RECURSIVE ScopeOf(_, _)
\* the innermost scope that binds the name, 0 when none does
ScopeOf(scopes, n) ==
    IF scopes = <<>> THEN 0
    ELSE IF MapHas(scopes[Len(scopes)], n) THEN Len(scopes)
    ELSE ScopeOf(SubSeq(scopes, 1, Len(scopes) - 1), n)

\* the value of a literal or of a name, Undefined for a name no scope binds
ScopedValue(scopes, expr) ==
    IF expr.type = "LiteralExpression" THEN expr.value
    ELSE IF ScopeOf(scopes, expr.name.lexeme) = 0 THEN Undefined
    ELSE scopes[ScopeOf(scopes, expr.name.lexeme)][expr.name.lexeme]

RECURSIVE Scoped(_, _)
\* the statements left to run in r.todo, run one after the other in the
\* scopes r.scopes; it stops at the first name it cannot resolve
Scoped(r, todo) ==
    IF todo = <<>> \/ ~r.ok THEN r
    ELSE LET stmt == Head(todo)
             inner == Scoped([r EXCEPT !.scopes = Append(@, EmptyMap)],
                             stmt.statements)
             target == ScopeOf(r.scopes, stmt.expression.name.lexeme)
             printed == ScopedValue(r.scopes, stmt.expression)
         IN CASE stmt.type = "VarStatement" ->
                   Scoped([r EXCEPT !.scopes[Len(r.scopes)] =
                              MapSet(@, stmt.name.lexeme,
                                     ScopedValue(r.scopes, stmt.initializer))],
                          Tail(todo))
              [] stmt.type = "BlockStatement" ->
                   Scoped([inner EXCEPT !.scopes = SubSeq(@, 1, Len(@) - 1)],
                          Tail(todo))
              [] stmt.type = "ExpressionStatement" ->
                   IF target = 0 THEN [r EXCEPT !.ok = FALSE]
                   ELSE Scoped([r EXCEPT !.scopes[target] =
                                   MapSet(@, stmt.expression.name.lexeme,
                                          stmt.expression.value.value)],
                               Tail(todo))
              [] stmt.type = "PrintStatement" ->
                   IF printed = Undefined THEN [r EXCEPT !.ok = FALSE]
                   ELSE Scoped([r EXCEPT !.out =
                                   Append(@, stringify(interpreter, printed).v)],
                               Tail(todo))

\* interpret is about to execute a block statement
AtBlock ==
    /\ pc = "interpret"
    /\ idx <= Len(statements)
    /\ statements[idx].type = "BlockStatement"

\* C7: a name declared inside a block is not resolvable once the block has
\* exited, an outer binding it shadowed is read unchanged, and an assignment
\* inside the block to a name of an enclosing frame is still read after the
\* exit: the globals and the output after a block are those of the scoped
\* reading, and the current frame is the one before the block.
C7_BlockScoping ==
    [][AtBlock =>
          LET scoped == Scoped([scopes |-> <<interpreter.frames[1].values>>,
                                out |-> interpreter.out, ok |-> TRUE],
                               <<statements[idx]>>)
          IN /\ interpreter'.env = interpreter.env
             /\ interpreter'.frames[1].values = scoped.scopes[1]
             /\ interpreter'.out = scoped.out
             /\ Failed(interpreter') = ~scoped.ok]_vars

\* after a block that assigned 4 to the outer a and declared b, the outer a
\* is 4 and reading b fails
C7_AfterBlock ==
    /\ pc = "catch"
    /\ idx > 1
    /\ statements[idx - 1].type = "BlockStatement"
    /\ get(interpreter, 1, [lexeme |-> "a"]).v = NumV(4)
    /\ interpreter.exc.message = "Undefined variable 'b'."

(***************************************************************************)
(* Scripts with methods that read and assign a variable of the frame their *)
(* class was declared in, and a method whose body raises a RuntimeError.   *)
(***************************************************************************)
\*   let n = 0;
\*   class K { put(v) { print n; n = v; } bad() { print missing; print 9; } }
\*   let k = K();
ClosurePrelude ==
    <<"l", "e", "t", " ", "n", " ", "=", " ", "0", ";", "\n", "c", "l",
      "a", "s", "s", " ", "K", " ", "{", " ", "p", "u", "t", "(", "v", ")",
      " ", "{", " ", "p", "r", "i", "n", "t", " ", "n", ";", " ", "n", " ",
      "=", " ", "v", ";", " ", "}", " ", "b", "a", "d", "(", ")", " ", "{",
      " ", "p", "r", "i", "n", "t", " ", "m", "i", "s", "s", "i", "n", "g",
      ";", " ", "p", "r", "i", "n", "t", " ", "9", ";", " ", "}", " ", "}",
      "\n", "l", "e", "t", " ", "k", " ", "=", " ", "K", "(", ")", ";", "\n">>

\*   k.put(1);
PutOne ==
    <<"k", ".", "p", "u", "t", "(", "1", ")", ";", "\n">>

\*   k.put(2);
PutTwo ==
    <<"k", ".", "p", "u", "t", "(", "2", ")", ";", "\n">>

\*   print n;
PrintN ==
    <<"p", "r", "i", "n", "t", " ", "n", ";", "\n">>

\*   n = 3;
AssignN ==
    <<"n", " ", "=", " ", "3", ";", "\n">>

\*   k.bad();
CallBad ==
    <<"k", ".", "b", "a", "d", "(", ")", ";", "\n">>

\*   print k.bad();
PrintBad ==
    <<"p", "r", "i", "n", "t", " ", "k", ".", "b", "a", "d", "(", ")", ";",
      "\n">>

\*   { let m = 0; class B { put(v) { print m; m = v; } } let b = B(); b.put(1); b.put(2); print m; }
BlockClosure ==
    <<"{", " ", "l", "e", "t", " ", "m", " ", "=", " ", "0", ";", " ", "c",
      "l", "a", "s", "s", " ", "B", " ", "{", " ", "p", "u", "t", "(", "v",
      ")", " ", "{", " ", "p", "r", "i", "n", "t", " ", "m", ";", " ", "m",
      " ", "=", " ", "v", ";", " ", "}", " ", "}", " ", "l", "e", "t", " ",
      "b", " ", "=", " ", "B", "(", ")", ";", " ", "b", ".", "p", "u", "t",
      "(", "1", ")", ";", " ", "b", ".", "p", "u", "t", "(", "2", ")", ";",
      " ", "p", "r", "i", "n", "t", " ", "m", ";", " ", "}", "\n">>

\*   let j = K();
SecondInstance ==
    <<"l", "e", "t", " ", "j", " ", "=", " ", "K", "(", ")", ";", "\n">>

\*   j.put(4);
PutFour ==
    <<"j", ".", "p", "u", "t", "(", "4", ")", ";", "\n">>

ClosureMenu ==
    {PutOne, PutTwo, PrintN, AssignN, CallBad, PrintBad, BlockClosure,
     SecondInstance, PutFour}

InitClosure == InitWith(ClosurePrelude, ClosureMenu)

SpecClosure == InitClosure /\ [][Next]_vars

\* a call that caught a RuntimeError leaving the body of its function was
\* made in the step
RuntimeErrorLeftBody ==
    \E i \in (Len(interpreter.log) + 1)..Len(interpreter'.log) :
        /\ interpreter'.log[i].ev = "caught"
        /\ interpreter'.log[i].exc.k = "RuntimeError"

\* C2: a RuntimeError raised inside a method body propagates out of the call
\* to the catch of interpret: the statement that made the call ends there
\* with that error.
C2_BodyErrorPropagates ==
    [][(pc = "interpret" /\ RuntimeErrorLeftBody) =>
          /\ pc' = "catch"
          /\ interpreter'.exc.k = "RuntimeError"]_vars

\* interpret is about to execute <name>.put(<literal>); for a name that the
\* globals bind
AtPut ==
    /\ pc = "interpret"
    /\ idx <= Len(statements)
    /\ statements[idx].type = "ExpressionStatement"
    /\ statements[idx].expression.type = "CallExpression"
    /\ statements[idx].expression.callee.type = "GetExpression"
    /\ statements[idx].expression.callee.name.lexeme = "put"
    /\ DefiningFrame(interpreter, 1,
                     statements[idx].expression.callee.object.name.lexeme) # 0

\* interpret is about to execute print n;
AtPrintN ==
    /\ pc = "interpret"
    /\ idx <= Len(statements)
    /\ statements[idx].type = "PrintStatement"
    /\ statements[idx].expression.type = "VariableExpression"
    /\ statements[idx].expression.name.lexeme = "n"

\* the method put of the instance the statement calls it on
PutMethod ==
    findMethod(interpreter,
               interpreter.insts[get(interpreter, 1,
                   statements[idx].expression.callee.object.name).v.inst].klass,
               "put")

\* C8: a method closes over the frame its class was declared in by
\* reference: a call of put reads n in that very frame, prints it, and its
\* assignment to n lands in that frame, where every later call of put, on
\* any instance, and the code of the frame itself read it; the frame of the
\* call hangs, through the frame that binds this, on the frame of the
\* declaration itself.
C8_ClosureByReference ==
    [][/\ AtPut =>
            /\ interpreter'.out =
                   Append(interpreter.out,
                          stringify(interpreter,
                              interpreter.frames[PutMethod.closure].values["n"]).v)
            /\ interpreter'.frames[PutMethod.closure].values["n"] =
                   statements[idx].expression.arguments[1].value
            /\ interpreter'.log[Len(interpreter'.log)].ev = "call"
            /\ interpreter'.frames[
                   interpreter'.frames[
                       interpreter'.log[Len(interpreter'.log)].frame].enclosing
                   ].enclosing = PutMethod.closure
       /\ AtPrintN =>
            interpreter'.out =
                Append(interpreter.out,
                       stringify(interpreter, interpreter.frames[1].values["n"]).v)
       /\ AtBlock => interpreter'.out = interpreter.out \o <<"0", "1", "2">>]_vars

\* put on a second instance has printed the 1 that put on the first one
\* assigned, and the globals read the 4 it assigned itself
C8_SeenByLaterCall ==
    /\ pc = "done"
    /\ Len(interpreter.insts) = 2
    /\ interpreter.out = <<"0", "1">>
    /\ interpreter.frames[1].values["n"] = NumV(4)

(***************************************************************************)
(* Scripts with classes that have an initializer, none, and one whose      *)
(* initializer raises; methods that read this, taken from an instance and  *)
(* called later, and called from the method of another instance.           *)
(***************************************************************************)
\*   class A { init(x) { this.x = x; } who() { print this.x; } ask(o) { o.who(); } }
\*   class Q { }
\*   class E { init() { this.x = 0; print missing; } }
\*   let a = A(1);
\*   let b = A(2);
ThisPrelude ==
    <<"c", "l", "a", "s", "s", " ", "A", " ", "{", " ", "i", "n", "i", "t",
      "(", "x", ")", " ", "{", " ", "t", "h", "i", "s", ".", "x", " ", "=",
      " ", "x", ";", " ", "}", " ", "w", "h", "o", "(", ")", " ", "{", " ",
      "p", "r", "i", "n", "t", " ", "t", "h", "i", "s", ".", "x", ";", " ",
      "}", " ", "a", "s", "k", "(", "o", ")", " ", "{", " ", "o", ".", "w",
      "h", "o", "(", ")", ";", " ", "}", " ", "}", "\n", "c", "l", "a",
      "s", "s", " ", "Q", " ", "{", " ", "}", "\n", "c", "l", "a", "s",
      "s", " ", "E", " ", "{", " ", "i", "n", "i", "t", "(", ")", " ", "{",
      " ", "t", "h", "i", "s", ".", "x", " ", "=", " ", "0", ";", " ", "p",
      "r", "i", "n", "t", " ", "m", "i", "s", "s", "i", "n", "g", ";", " ",
      "}", " ", "}", "\n", "l", "e", "t", " ", "a", " ", "=", " ", "A",
      "(", "1", ")", ";", "\n", "l", "e", "t", " ", "b", " ", "=", " ",
      "A", "(", "2", ")", ";", "\n">>

\*   a.who();
CallWho ==
    <<"a", ".", "w", "h", "o", "(", ")", ";", "\n">>

\*   let f = b.who;
TakeWho ==
    <<"l", "e", "t", " ", "f", " ", "=", " ", "b", ".", "w", "h", "o", ";",
      "\n">>

\*   f();
CallTaken ==
    <<"f", "(", ")", ";", "\n">>

\*   b.ask(a);
AskOther ==
    <<"b", ".", "a", "s", "k", "(", "a", ")", ";", "\n">>

\*   let q = Q();
NewPlain ==
    <<"l", "e", "t", " ", "q", " ", "=", " ", "Q", "(", ")", ";", "\n">>

\*   let e = E();
NewFailing ==
    <<"l", "e", "t", " ", "e", " ", "=", " ", "E", "(", ")", ";", "\n">>

\*   a = A(3);
NewAgain ==
    <<"a", " ", "=", " ", "A", "(", "3", ")", ";", "\n">>

\*   print e.x;
PrintField ==
    <<"p", "r", "i", "n", "t", " ", "e", ".", "x", ";", "\n">>

ThisMenu ==
    {CallWho, TakeWho, CallTaken, AskOther, NewPlain, NewFailing, NewAgain,
     PrintField}

InitThis == InitWith(ThisPrelude, ThisMenu)

SpecThis == InitThis /\ [][Next]_vars

\* the call expression of let <name> = <callee>(...); or <name> = <callee>(...);
\* NullNode for another statement
CallOf(stmt) ==
    IF stmt.type = "VarStatement" THEN stmt.initializer
    ELSE IF stmt.type = "ExpressionStatement"
            /\ stmt.expression.type = "AssignExpression"
    THEN stmt.expression.value
    ELSE NullNode

\* the name that statement binds
BoundBy(stmt) ==
    IF stmt.type = "VarStatement" THEN stmt.name.lexeme
    ELSE stmt.expression.name.lexeme

\* interpret is about to execute a statement that binds the value of a call
\* of a class
AtClassCall ==
    /\ pc = "interpret"
    /\ idx <= Len(statements)
    /\ CallOf(statements[idx]).type = "CallExpression"
    /\ CallOf(statements[idx]).callee.type = "VariableExpression"
    /\ get(interpreter, 1, CallOf(statements[idx]).callee.name).v.t = "class"

CalledClass == get(interpreter, 1, CallOf(statements[idx]).callee.name).v.class

\* what the step has added to the log
NewEvents == SubSeq(interpreter'.log, Len(interpreter.log) + 1, Len(interpreter'.log))

EventsOf(events, ev) == {i \in DOMAIN events : events[i].ev = ev}

\* C9: calling a class creates exactly one new instance of it and leaves the
\* others alone; with an init method, init is called exactly once, bound to
\* the new instance, its parameters bound to the arguments of the call;
\* without one no method runs; the value of the call is the new instance.
C9_OneInstanceOneInit ==
    [][AtClassCall =>
          LET new == Len(interpreter.insts) + 1
              calls == EventsOf(NewEvents, "call")
              init == interpreter.classes[CalledClass].methods["init"]
          IN /\ Len(interpreter'.insts) = new
             /\ \A i \in DOMAIN interpreter.insts :
                    interpreter'.insts[i] = interpreter.insts[i]
             /\ interpreter'.insts[new].klass = CalledClass
             /\ Cardinality(EventsOf(NewEvents, "new")) = 1
             /\ interpreter'.frames[1].values[BoundBy(statements[idx])] = InstV(new)
             /\ IF MapHas(interpreter.classes[CalledClass].methods, "init")
                THEN /\ Cardinality(calls) = 1
                     /\ \A c \in calls :
                          /\ NewEvents[c].name = "init"
                          /\ NewEvents[c].boundTo = new
                          /\ \A p \in DOMAIN init.declaration.params :
                               interpreter'.frames[NewEvents[c].frame].values[
                                   init.declaration.params[p].lexeme] =
                               CallOf(statements[idx]).arguments[p].value
                     /\ MapHas(interpreter'.insts[new].fields, "x")
                ELSE /\ calls = {}
                     /\ interpreter'.insts[new].fields = EmptyMap]_vars

\* three instances made by the prelude and the script, the third by a class
\* whose init set x to 3
C9_Instantiated ==
    /\ pc = "done"
    /\ Len(interpreter.insts) = 3
    /\ interpreter.insts[3].fields = [x \in {"x"} |-> NumV(3)]
    /\ interpreter.frames[1].values["a"] = InstV(3)

\* C10: inside a method this is the instance the method was read from,
\* whoever calls it and whenever: bind makes a frame with the one entry
\* this, enclosed by the closure of the method, and leaves the method table
\* of the class and that closure as the declaration made them.
C10_ThisIsTheReceiver ==
    /\ \A i \in DOMAIN interpreter.log :
           (interpreter.log[i].ev = "this" /\ interpreter.log[i].boundTo # 0) =>
               interpreter.log[i].value = InstV(interpreter.log[i].boundTo)
    /\ \A f \in DOMAIN interpreter.frames :
           interpreter.frames[f].kind = "bind" =>
               /\ DOMAIN interpreter.frames[f].values = {"this"}
               /\ interpreter.frames[f].values["this"].t = "instance"
               /\ interpreter.frames[f].enclosing = 1
    /\ \A c \in DOMAIN interpreter.classes :
           /\ statements[c].type = "ClassStatement"
           /\ interpreter.classes[c].methods =
                  MethodTable(statements[c].methods, FALSE, 1)
    /\ ~MapHas(interpreter.frames[1].values, "this")

\* who, taken from b before a.who() ran, has printed the x of b after it
C10_TakenMethodKeepsThis ==
    /\ pc = "done"
    /\ MapHas(interpreter.frames[1].values, "f")
    /\ interpreter.out = <<"1", "2">>
    /\ Cardinality(EventsOf(interpreter.log, "this")) = 4

(***************************************************************************)
(* Scripts that print arithmetic over number literals and over names bound *)
(* to number literals.                                                     *)
(***************************************************************************)
\*   print 1 + 2 * 3;
PrintSumOfProduct ==
    <<"p", "r", "i", "n", "t", " ", "1", " ", "+", " ", "2", " ", "*", " ",
      "3", ";", "\n">>

\*   print 8 - 4 - 2;
PrintDifferences ==
    <<"p", "r", "i", "n", "t", " ", "8", " ", "-", " ", "4", " ", "-", " ",
      "2", ";", "\n">>

\*   print 6 / 3 * 2;
PrintQuotientTimes ==
    <<"p", "r", "i", "n", "t", " ", "6", " ", "/", " ", "3", " ", "*", " ",
      "2", ";", "\n">>

\*   print 5;
PrintFive ==
    <<"p", "r", "i", "n", "t", " ", "5", ";", "\n">>

\*   let a = 10;
LetTen ==
    <<"l", "e", "t", " ", "a", " ", "=", " ", "1", "0", ";", "\n">>

\*   let b = 20;
LetTwenty ==
    <<"l", "e", "t", " ", "b", " ", "=", " ", "2", "0", ";", "\n">>

\*   print a + b;
PrintSumOfNames ==
    <<"p", "r", "i", "n", "t", " ", "a", " ", "+", " ", "b", ";", "\n">>

\*   print c;
PrintUndeclared ==
    <<"p", "r", "i", "n", "t", " ", "c", ";", "\n">>

ArithMenu ==
    {PrintSumOfProduct, PrintDifferences, PrintQuotientTimes, PrintFive, LetTen,
     LetTwenty, PrintSumOfNames, PrintUndeclared}

InitArith == InitWith(<<>>, ArithMenu)

SpecArith == InitArith /\ [][Next]_vars

(***************************************************************************)
(* The textbook reading of  operand (operator operand)*  on the tokens: a  *)
(* sum of signed products, both taken from left to right.                  *)
(***************************************************************************)
\* the names the tokens declare with let
DeclaredNames(ts) ==
    {ts[i + 1].lexeme : i \in {j \in 1..(Len(ts) - 1) : ts[j].type = "LET"}}

\* the number of an operand: of a literal, or of a name that let <name> =
\* <literal>; binds
OperandValue(ts, token) ==
    IF token.type = "NUMBER" THEN token.literal
    ELSE ts[(CHOOSE i \in 1..Len(ts) :
                 ts[i].type = "LET" /\ ts[i + 1].lexeme = token.lexeme) + 3].literal

RECURSIVE SumOfProducts(_, _, _, _)
\* sum is the value of the terms read, product the signed term being read,
\* todo the tokens left, an operator first
SumOfProducts(ts, sum, product, todo) ==
    IF todo = <<>> THEN NumAdd(sum, product)
    ELSE CASE todo[1].type = "STAR" ->
                SumOfProducts(ts, sum, NumMul(product, OperandValue(ts, todo[2])),
                              SubSeq(todo, 3, Len(todo)))
           [] todo[1].type = "SLASH" ->
                SumOfProducts(ts, sum, NumDiv(product, OperandValue(ts, todo[2])),
                              SubSeq(todo, 3, Len(todo)))
           [] todo[1].type = "PLUS" ->
                SumOfProducts(ts, NumAdd(sum, product), OperandValue(ts, todo[2]),
                              SubSeq(todo, 3, Len(todo)))
           [] todo[1].type = "MINUS" ->
                SumOfProducts(ts, NumAdd(sum, product),
                              NumNeg(OperandValue(ts, todo[2])),
                              SubSeq(todo, 3, Len(todo)))

RECURSIVE TextbookOutput(_, _)
\* what the print statements among the tokens from index i on print
TextbookOutput(ts, i) ==
    IF ts[i].type = "EOF" THEN <<>>
    ELSE LET semicolon == CHOOSE j \in i..Len(ts) :
                             /\ ts[j].type = "SEMICOLON"
                             /\ \A k \in i..(j - 1) : ts[k].type # "SEMICOLON"
         IN (IF ts[i].type = "PRINT"
             THEN <<NumberToString(
                      SumOfProducts(ts, NumV(0), OperandValue(ts, ts[i + 1]),
                                    SubSeq(ts, i + 2, semicolon - 1)))>>
             ELSE <<>>) \o TextbookOutput(ts, semicolon + 1)

\* every operand is a number literal or a name the script declares
Arithmetic ==
    \A i \in DOMAIN lexer.tokens :
        lexer.tokens[i].type = "IDENTIFIER" =>
            lexer.tokens[i].lexeme \in DeclaredNames(lexer.tokens)

\* C6: a script that prints expressions over numbers with + - * / is lexed,
\* parsed and evaluated without an error, and prints the values of the
\* textbook reading, * and / binding tighter than + and -, equal precedence
\* from left to right.
C6_TextbookArithmetic ==
    (pc \in {"done", "halted", "escaped"} /\ Arithmetic) =>
        /\ lexer.errors = <<>>
        /\ parser.errors = 0
        /\ stderr = <<>>
        /\ interpreter.out = TextbookOutput(lexer.tokens, 1)

(***************************************************************************)
(* Scripts that declare, redeclare, shadow and assign names in the global  *)
(* frame and in nested blocks, assign names that no frame defines, and     *)
(* run a constructor and a method whose bodies hold blocks.                *)
(***************************************************************************)
\*   class K { init() { { this.v = 1; } } m() { { let z = 2; print u; } } }
\*   let k = K();
EnvPrelude ==
    <<"c", "l", "a", "s", "s", " ", "K", " ", "{", " ", "i", "n", "i", "t",
      "(", ")", " ", "{", " ", "{", " ", "t", "h", "i", "s", ".", "v", " ",
      "=", " ", "1", ";", " ", "}", " ", "}", " ", "m", "(", ")", " ", "{",
      " ", "{", " ", "l", "e", "t", " ", "z", " ", "=", " ", "2", ";", " ",
      "p", "r", "i", "n", "t", " ", "u", ";", " ", "}", " ", "}", " ", "}",
      "\n", "l", "e", "t", " ", "k", " ", "=", " ", "K", "(", ")", ";", "\n">>

\*   let a = 1;
LetOne ==
    <<"l", "e", "t", " ", "a", " ", "=", " ", "1", ";", "\n">>

\*   let a = 5;
LetFive ==
    <<"l", "e", "t", " ", "a", " ", "=", " ", "5", ";", "\n">>

\*   { let a = 2; a = 3; }
ShadowThenAssign ==
    <<"{", " ", "l", "e", "t", " ", "a", " ", "=", " ", "2", ";", " ", "a",
      " ", "=", " ", "3", ";", " ", "}", "\n">>

\*   { a = 4; { let b = 6; a = 7; b = 8; } }
AssignThroughBlocks ==
    <<"{", " ", "a", " ", "=", " ", "4", ";", " ", "{", " ", "l", "e", "t",
      " ", "b", " ", "=", " ", "6", ";", " ", "a", " ", "=", " ", "7", ";",
      " ", "b", " ", "=", " ", "8", ";", " ", "}", " ", "}", "\n">>

\*   { let c = 1; { c = 2; d = 3; } }
AssignUndefinedInside ==
    <<"{", " ", "l", "e", "t", " ", "c", " ", "=", " ", "1", ";", " ", "{",
      " ", "c", " ", "=", " ", "2", ";", " ", "d", " ", "=", " ", "3", ";",
      " ", "}", " ", "}", "\n">>

\*   k.m();
CallM ==
    <<"k", ".", "m", "(", ")", ";", "\n">>

\*   let u = K();
LetU ==
    <<"l", "e", "t", " ", "u", " ", "=", " ", "K", "(", ")", ";", "\n">>

\*   b = 1;
AssignUndefined ==
    <<"b", " ", "=", " ", "1", ";", "\n">>

EnvMenu ==
    {LetOne, LetFive, ShadowThenAssign, AssignThroughBlocks, AssignUndefinedInside,
     CallM, LetU, AssignUndefined}

InitEnv == InitWith(EnvPrelude, EnvMenu)

SpecEnv == InitEnv /\ [][Next]_vars

\* the names the scripts use, and one more
EnvNames == {"a", "b", "c", "d", "k", "u", "z", "this", "other"}

\* the token of a name
NameToken(n) == Token("IDENTIFIER", n, Null, 1, 0)

RECURSIVE ChainOf(_, _)
\* the frames from f outwards, f first
ChainOf(frames, f) ==
    IF f = 0 THEN <<>> ELSE <<f>> \o ChainOf(frames, frames[f].enclosing)

\* the frames of the chain from f that bind n, in the order of the chain
BindersOf(frames, f, n) ==
    SelectSeq(ChainOf(frames, f), LAMBDA g : n \in DOMAIN frames[g].values)

\* C11: get and assign of a name that no frame of the chain defines fail
\* with the same RuntimeError, the undefined variable naming the identifier,
\* and leave every frame with the bindings it had: no binding is created.
C11_UndefinedNameFails ==
    \A f \in DOMAIN interpreter.frames : \A n \in EnvNames :
        BindersOf(interpreter.frames, f, n) = <<>> =>
            /\ get(interpreter, f, NameToken(n)).st.exc =
                   RuntimeError(NameToken(n), "Undefined variable '" \o n \o "'.")
            /\ assign(interpreter, f, NameToken(n), NumV(0)).exc =
                   get(interpreter, f, NameToken(n)).st.exc
            /\ get(interpreter, f, NameToken(n)).st.frames = interpreter.frames
            /\ assign(interpreter, f, NameToken(n), NumV(0)).frames =
                   interpreter.frames

\* b = 1; at the top level has failed, and the globals have no b
C11_AssignFailed ==
    /\ pc = "catch"
    /\ statements[idx].type = "ExpressionStatement"
    /\ statements[idx].expression.type = "AssignExpression"
    /\ interpreter.exc.message = "Undefined variable 'b'."
    /\ ~MapHas(interpreter.frames[1].values, "b")
    /\ Len(interpreter.frames) > 1

\* the values the checks assign and define
EnvValues == {NumV(0), StrV("s"), Null}

\* C12: assign from frame f changes the binding of the name in exactly one
\* frame, the innermost of the chain from f that binds it, leaves every
\* other frame and every other binding as it was, and a get of the name
\* from f then returns the value.
C12_AssignInnermostBinder ==
    \A f \in DOMAIN interpreter.frames : \A n \in EnvNames : \A v \in EnvValues :
        BindersOf(interpreter.frames, f, n) # <<>> =>
            LET d == BindersOf(interpreter.frames, f, n)[1]
                after == assign(interpreter, f, NameToken(n), v)
            IN /\ after.exc = interpreter.exc
               /\ DOMAIN after.frames = DOMAIN interpreter.frames
               /\ \A g \in DOMAIN interpreter.frames \ {d} :
                      after.frames[g] = interpreter.frames[g]
               /\ after.frames[d].enclosing = interpreter.frames[d].enclosing
               /\ DOMAIN after.frames[d].values = DOMAIN interpreter.frames[d].values
               /\ \A m \in DOMAIN interpreter.frames[d].values \ {n} :
                      after.frames[d].values[m] = interpreter.frames[d].values[m]
               /\ after.frames[d].values[n] = v
               /\ get(after, f, NameToken(n)) = Ret(after, v)

\* a = 3; in a block that had declared its own a has changed the a of the
\* block, and the a of the globals is still 1
C12_InnerAssigned ==
    /\ pc = "done"
    /\ MapHas(interpreter.frames[1].values, "a")
    /\ interpreter.frames[1].values["a"] = NumV(1)
    /\ \E f \in DOMAIN interpreter.frames :
           /\ interpreter.frames[f].kind = "block"
           /\ interpreter.frames[f].enclosing = 1
           /\ MapHas(interpreter.frames[f].values, "a")
           /\ interpreter.frames[f].values["a"] = NumV(3)

\* C13: define on frame f always succeeds and sets the name to the value in
\* f only, over an earlier definition too; no other frame changes, and a get
\* of the name from f then returns the value, whatever an enclosing frame
\* binds the name to.
C13_DefineInFrameOnly ==
    \A f \in DOMAIN interpreter.frames : \A n \in EnvNames : \A v \in EnvValues :
        LET after == define(interpreter, f, n, v)
        IN /\ after.exc = interpreter.exc
           /\ DOMAIN after.frames = DOMAIN interpreter.frames
           /\ \A g \in DOMAIN interpreter.frames \ {f} :
                  after.frames[g] = interpreter.frames[g]
           /\ after.frames[f].enclosing = interpreter.frames[f].enclosing
           /\ DOMAIN after.frames[f].values =
                  DOMAIN interpreter.frames[f].values \cup {n}
           /\ \A m \in DOMAIN interpreter.frames[f].values \ {n} :
                  after.frames[f].values[m] = interpreter.frames[f].values[m]
           /\ after.frames[f].values[n] = v
           /\ get(after, f, NameToken(n)) = Ret(after, v)

\* let a = 5; after let a = 1; has overwritten the a of the globals, and a
\* block has declared an a of its own over it
C13_Redeclared ==
    /\ pc = "done"
    /\ source = EnvPrelude \o LetOne \o LetFive \o ShadowThenAssign
    /\ interpreter.frames[1].values["a"] = NumV(5)
    /\ \E f \in DOMAIN interpreter.frames :
           /\ interpreter.frames[f].kind = "block"
           /\ MapHas(interpreter.frames[f].values, "a")

\* C14: executeBlock leaves the current frame as it was before the call,
\* whether the statements complete or an error leaves them; whenever the loop
\* of interpret is between two statements, in its handler or over, the
\* current frame is the global frame.
C14_FrameRestored ==
    /\ pc \in {"interpret", "catch", "done", "escaped"} => interpreter.env = 1
    /\ pc = "interpret" =>
           \A i \in DOMAIN statements : \A f \in DOMAIN interpreter.frames :
               statements[i].type = "BlockStatement" =>
                   executeBlock(NewEnvironment([interpreter EXCEPT !.env = f], f, "block"),
                                statements[i].statements,
                                Len(interpreter.frames) + 1).env = f

\* an assignment to an undefined name has failed two blocks deep, and the
\* handler of interpret sees the global frame
C14_FailedTwoBlocksDeep ==
    /\ pc = "catch"
    /\ interpreter.exc = RuntimeError(interpreter.exc.token, "Undefined variable 'd'.")
    /\ interpreter.env = 1
    /\ \E f, g \in DOMAIN interpreter.frames :
           /\ interpreter.frames[f].kind = "block"
           /\ interpreter.frames[g].kind = "block"
           /\ interpreter.frames[g].enclosing = f
           /\ interpreter.frames[f].values["c"] = NumV(2)

(***************************************************************************)
(* Calls with a wrong number of arguments.                                 *)
(***************************************************************************)
\*   class K { two(a, b) { print a; } none() { print 0; } }
\*   let k = K();
ArityPrelude ==
    <<"c", "l", "a", "s", "s", " ", "K", " ", "{", " ", "t", "w", "o", "(",
      "a", ",", " ", "b", ")", " ", "{", " ", "p", "r", "i", "n", "t", " ",
      "a", ";", " ", "}", " ", "n", "o", "n", "e", "(", ")", " ", "{", " ",
      "p", "r", "i", "n", "t", " ", "0", ";", " ", "}", " ", "}", "\n",
      "l", "e", "t", " ", "k", " ", "=", " ", "K", "(", ")", ";", "\n">>

\*   k.two(1);
TwoWithOne ==
    <<"k", ".", "t", "w", "o", "(", "1", ")", ";", "\n">>

\*   k.two(1, 2);
TwoWithTwo ==
    <<"k", ".", "t", "w", "o", "(", "1", ",", " ", "2", ")", ";", "\n">>

\*   k.two(k.none());
TwoWithCall ==
    <<"k", ".", "t", "w", "o", "(", "k", ".", "n", "o", "n", "e", "(", ")",
      ")", ";", "\n">>

\*   k.none(1);
NoneWithOne ==
    <<"k", ".", "n", "o", "n", "e", "(", "1", ")", ";", "\n">>

\*   len();
LenWithNone ==
    <<"l", "e", "n", "(", ")", ";", "\n">>

\*   Label();
LabelWithNone ==
    <<"L", "a", "b", "e", "l", "(", ")", ";", "\n">>

\*   Label("a");
LabelWithOne ==
    <<"L", "a", "b", "e", "l", "(", "\"", "a", "\"", ")", ";", "\n">>

\*   Label("a", 2, 3);
LabelWithThree ==
    <<"L", "a", "b", "e", "l", "(", "\"", "a", "\"", ",", " ", "2", ",",
      " ", "3", ")", ";", "\n">>

ArityMenu ==
    {TwoWithOne, TwoWithTwo, TwoWithCall, NoneWithOne,
     LenWithNone, LabelWithNone, LabelWithOne, LabelWithThree}

InitArity == InitWith(ArityPrelude, ArityMenu)

SpecArity == InitArity /\ [][Next]_vars

\* the statement the loop of interpret is about to execute is a call
AtCall ==
    /\ pc = "interpret"
    /\ idx <= Len(statements)
    /\ statements[idx].type = "ExpressionStatement"
    /\ statements[idx].expression.type = "CallExpression"

\* arity() of a function or of a native callable
ArityOf(callee) ==
    IF callee.t = "function" THEN Len(callee.declaration.params)
    ELSE NativeArity[callee.native]

\* the step from st to after entered no function and no native: it left only
\* the RuntimeError of the counts
FailedOnCounts(st, after, arity, count) ==
    /\ after.exc.k = "RuntimeError"
    /\ after.exc.message = "Expected " \o ToString(arity) \o " arguments but got "
                             \o ToString(count) \o "."
    /\ [after EXCEPT !.exc = NoExc] = st

\* C15: a call of a function or native whose arity is n >= 0 with a number
\* of arguments other than n fails with the RuntimeError of the counts, and
\* nothing of the callee has run: the interpreter is as the evaluation of
\* the arguments left it.  The variadic Label (arity -1) is entered with any
\* number of arguments: outside one or two it fails with its own message,
\* with one string it builds the label.
C15_ArityBeforeBody ==
    [][AtCall =>
        LET expr == statements[idx].expression
            callee == evaluate(interpreter, expr.callee)
            args == EvaluateElements(callee.st, expr.arguments, <<>>)
        IN (~Failed(callee.st) /\ ~Failed(args.st)
               /\ callee.v.t \in {"function", "native"}) =>
              /\ (ArityOf(callee.v) >= 0 /\ Len(args.v) # ArityOf(callee.v)) =>
                     FailedOnCounts(args.st, interpreter', ArityOf(callee.v), Len(args.v))
              /\ (ArityOf(callee.v) = -1 /\ Len(args.v) \notin {1, 2}) =>
                     interpreter'.exc = RuntimeError(Null,
                         "Label() expects 1 or 2 arguments: (text, [classes]).")
              /\ (ArityOf(callee.v) = -1 /\ Len(args.v) = 1) =>
                     /\ ~Failed(interpreter')
                     /\ Len(interpreter'.natives) = Len(interpreter.natives) + 1
    ]_vars

\* k.two(k.none()) has failed on its counts after none, the argument, ran
\* and printed; no call of two is in the log
C15_OneForTwo ==
    /\ pc = "catch"
    /\ interpreter.exc.message = "Expected 2 arguments but got 1."
    /\ interpreter.out = <<"0">>
    /\ \A i \in DOMAIN interpreter.log :
           interpreter.log[i].ev = "call" => interpreter.log[i].name # "two"

(***************************************************************************)
(* Calls of values that are not callable.                                  *)
(***************************************************************************)
\*   class K { }
\*   let k = K();
\*   let n = nil;
\*   let b = true;
\*   let one = 1;
\*   let s = "s";
\*   let w = Label("a");
CalleePrelude ==
    <<"c", "l", "a", "s", "s", " ", "K", " ", "{", " ", "}", "\n", "l",
      "e", "t", " ", "k", " ", "=", " ", "K", "(", ")", ";", "\n", "l",
      "e", "t", " ", "n", " ", "=", " ", "n", "i", "l", ";", "\n", "l",
      "e", "t", " ", "b", " ", "=", " ", "t", "r", "u", "e", ";", "\n",
      "l", "e", "t", " ", "o", "n", "e", " ", "=", " ", "1", ";", "\n",
      "l", "e", "t", " ", "s", " ", "=", " ", "\"", "s", "\"", ";", "\n",
      "l", "e", "t", " ", "w", " ", "=", " ", "L", "a", "b", "e", "l", "(",
      "\"", "a", "\"", ")", ";", "\n">>

\*   n();
CallNil ==
    <<"n", "(", ")", ";", "\n">>

\*   b();
CallBoolean ==
    <<"b", "(", ")", ";", "\n">>

\*   one();
CallNumber ==
    <<"o", "n", "e", "(", ")", ";", "\n">>

\*   s();
CallString ==
    <<"s", "(", ")", ";", "\n">>

\*   k();
CallInstance ==
    <<"k", "(", ")", ";", "\n">>

\*   w();
CallNativeInstance ==
    <<"w", "(", ")", ";", "\n">>

\*   1();
CallLiteral ==
    <<"1", "(", ")", ";", "\n">>

\*   b()();
CallOfCall ==
    <<"b", "(", ")", "(", ")", ";", "\n">>

CalleeMenu ==
    {CallNil, CallBoolean, CallNumber, CallString,
     CallInstance, CallNativeInstance, CallLiteral, CallOfCall}

InitCallee == InitWith(CalleePrelude, CalleeMenu)

SpecCallee == InitCallee /\ [][Next]_vars

\* the statement at idx is a call, and interpret has left its loop in it
LeftInCall ==
    /\ pc \in {"catch", "done", "escaped"}
    /\ idx \in DOMAIN statements
    /\ statements[idx].type = "ExpressionStatement"
    /\ statements[idx].expression.type = "CallExpression"

\* C16: a call of nil, a boolean, a number, a string, an instance of a class
\* or a native UI instance fails with the RuntimeError 'Can only call
\* functions and classes.', and interpret reports it as a runtime error;
\* nothing else is thrown or escapes.
C16_NotCallableReported ==
    LeftInCall =>
        /\ interpreter.exc.k = "RuntimeError"
        /\ interpreter.exc.message = "Can only call functions and classes."
        /\ pc # "catch" =>
               /\ pc = "done"
               /\ escaped = NoExc
               /\ stderr = <<Report(interpreter.exc)>>

\* the call of the boolean b has been reported as a runtime error
C16_BooleanReported ==
    /\ LeftInCall
    /\ pc = "done"
    /\ source = CalleePrelude \o CallBoolean
    /\ interpreter.exc.k = "RuntimeError"
    /\ interpreter.exc.message = "Can only call functions and classes."
    /\ stderr = <<Report(interpreter.exc)>>

(***************************************************************************)
(* Properties of classes, instances and native instances.                  *)
(***************************************************************************)
\*   class P { static make() { print 1; } show() { print this.f; } init() { this.f = 3; } }
\*   let p = P();
\*   let q = P();
\*   let w = Label("a");
\*   let n = nil;
PropertyPrelude ==
    <<"c", "l", "a", "s", "s", " ", "P", " ", "{", " ", "s", "t", "a", "t",
      "i", "c", " ", "m", "a", "k", "e", "(", ")", " ", "{", " ", "p", "r",
      "i", "n", "t", " ", "1", ";", " ", "}", " ", "s", "h", "o", "w", "(",
      ")", " ", "{", " ", "p", "r", "i", "n", "t", " ", "t", "h", "i", "s",
      ".", "f", ";", " ", "}", " ", "i", "n", "i", "t", "(", ")", " ", "{",
      " ", "t", "h", "i", "s", ".", "f", " ", "=", " ", "3", ";", " ", "}",
      " ", "}", "\n", "l", "e", "t", " ", "p", " ", "=", " ", "P", "(",
      ")", ";", "\n", "l", "e", "t", " ", "q", " ", "=", " ", "P", "(",
      ")", ";", "\n", "l", "e", "t", " ", "w", " ", "=", " ", "L", "a",
      "b", "e", "l", "(", "\"", "a", "\"", ")", ";", "\n", "l", "e", "t",
      " ", "n", " ", "=", " ", "n", "i", "l", ";", "\n">>

\*   P.make();
StaticOnClass ==
    <<"P", ".", "m", "a", "k", "e", "(", ")", ";", "\n">>

\*   P.show();
MethodOnClass ==
    <<"P", ".", "s", "h", "o", "w", "(", ")", ";", "\n">>

\*   p.show();
MethodOnInstance ==
    <<"p", ".", "s", "h", "o", "w", "(", ")", ";", "\n">>

\*   p.make();
StaticOnInstance ==
    <<"p", ".", "m", "a", "k", "e", "(", ")", ";", "\n">>

\*   p.show = 4;
FieldOverMethod ==
    <<"p", ".", "s", "h", "o", "w", " ", "=", " ", "4", ";", "\n">>

\*   print p.show;
PrintShow ==
    <<"p", "r", "i", "n", "t", " ", "p", ".", "s", "h", "o", "w", ";", "\n">>

\*   p.g = 5;
SetG ==
    <<"p", ".", "g", " ", "=", " ", "5", ";", "\n">>

\*   print q.g;
PrintOtherG ==
    <<"p", "r", "i", "n", "t", " ", "q", ".", "g", ";", "\n">>

PropertyMenu ==
    {StaticOnClass, MethodOnClass, MethodOnInstance, StaticOnInstance,
     FieldOverMethod, PrintShow, SetG, PrintOtherG}

InitProperty == InitWith(PropertyPrelude, PropertyMenu)

SpecProperty == InitProperty /\ [][Next]_vars

PropertyObjects == {"P", "p", "q", "w", "n"}

PropertyNames == {"make", "show", "init", "f", "g", "setBackgroundColor", "add"}

\* the expression  o.name  for a global o
GetOf(o, name) ==
    [type |-> "GetExpression",
     object |-> [type |-> "VariableExpression", name |-> NameToken(o)],
     name |-> NameToken(name)]

\* interpret is between two statements or over, and the globals define o
Settled(o) ==
    /\ pc \in {"interpret", "done"}
    /\ ~Failed(interpreter)
    /\ MapHas(interpreter.frames[1].values, o)

\* the access r of st found nothing: a RuntimeError, and nothing else changed
FoundNothing(st, r) ==
    /\ r.st.exc.k = "RuntimeError"
    /\ [r.st EXCEPT !.exc = NoExc] = st
    /\ r.v = Undefined

\* C17: the access o.name on a class finds its static methods only; on an
\* instance of a class it finds a field first, then a method of the class,
\* returned bound to the instance, and no static method; on a native
\* instance its own properties; an access that finds nothing, on these and
\* on nil, raises a RuntimeError and yields no value.
C17_PropertyOrder ==
    \A o \in PropertyObjects : \A name \in PropertyNames :
        Settled(o) =>
            LET object == interpreter.frames[1].values[o]
                r == visitGetExpression(interpreter, GetOf(o, name))
            IN CASE object.t = "class" ->
                        IF MapHas(interpreter.classes[object.class].staticMethods, name)
                        THEN r = Ret(interpreter,
                                     interpreter.classes[object.class].staticMethods[name])
                        ELSE FoundNothing(interpreter, r)
                 [] object.t = "instance" ->
                        LET klass == interpreter.classes[interpreter.insts[object.inst].klass]
                        IN IF MapHas(interpreter.insts[object.inst].fields, name)
                           THEN r = Ret(interpreter,
                                        interpreter.insts[object.inst].fields[name])
                           ELSE IF MapHas(klass.methods, name)
                           THEN /\ ~Failed(r.st)
                                /\ r.v.t = "function"
                                /\ r.v.declaration = klass.methods[name].declaration
                                /\ r.v.boundTo = object.inst
                                /\ get(r.st, r.v.closure, NameToken("this")).v = object
                                /\ r.st.insts = interpreter.insts
                                /\ r.st.classes = interpreter.classes
                           ELSE FoundNothing(interpreter, r)
                 [] object.t = "nativeInstance" ->
                        IF name \in NativeProperties[interpreter.natives[object.nid].class]
                        THEN r = Ret(interpreter, NativeFn(name, object.nid))
                        ELSE FoundNothing(interpreter, r)
                 [] OTHER -> FoundNothing(interpreter, r)

\* p has the field show and its class the method show, and print p.show
\* has printed the field
C17_FieldPrinted ==
    /\ pc = "done"
    /\ source = PropertyPrelude \o FieldOverMethod \o PrintShow \o MethodOnInstance
    /\ interpreter.insts[1].fields["show"] = NumV(4)
    /\ MapHas(interpreter.classes[1].methods, "show")
    /\ interpreter.out = <<"4">>

PropertyValues == {NumV(7), StrV("s"), Null}

\* the expression  o.name = value  for a global o and a literal value
SetOf(o, name, value) ==
    [type |-> "SetExpression",
     object |-> [type |-> "VariableExpression", name |-> NameToken(o)],
     name |-> NameToken(name),
     value |-> [type |-> "LiteralExpression", value |-> value]]

\* C18: o.name = value on an instance of a class puts the value into the
\* fields of that instance, a new field or an old one, and yields the value;
\* the fields of every other instance, the method tables of the classes and
\* the rest of the interpreter are unchanged.  On a class, a native instance
\* or nil it fails with a RuntimeError and writes nothing.
C18_SetWritesOneInstance ==
    \A o \in PropertyObjects : \A name \in PropertyNames : \A value \in PropertyValues :
        Settled(o) =>
            LET object == interpreter.frames[1].values[o]
                r == visitSetExpression(interpreter, SetOf(o, name, value))
            IN IF object.t = "instance"
               THEN /\ ~Failed(r.st)
                    /\ r.v = value
                    /\ DOMAIN r.st.insts = DOMAIN interpreter.insts
                    /\ \A i \in DOMAIN interpreter.insts \ {object.inst} :
                           r.st.insts[i] = interpreter.insts[i]
                    /\ r.st.insts[object.inst].klass = interpreter.insts[object.inst].klass
                    /\ DOMAIN r.st.insts[object.inst].fields =
                           DOMAIN interpreter.insts[object.inst].fields \cup {name}
                    /\ \A m \in DOMAIN interpreter.insts[object.inst].fields \ {name} :
                           r.st.insts[object.inst].fields[m] =
                               interpreter.insts[object.inst].fields[m]
                    /\ r.st.insts[object.inst].fields[name] = value
                    /\ [r.st EXCEPT !.insts = interpreter.insts] = interpreter
               ELSE /\ r.st.exc.k = "RuntimeError"
                    /\ r.st.exc.message = "Only instances have fields."
                    /\ [r.st EXCEPT !.exc = NoExc] = interpreter

\* p.g = 5 has given p the field g; q, of the same class, has no g, and
\* print q.g has failed
C18_OtherInstanceWithout ==
    /\ pc = "done"
    /\ MapHas(interpreter.insts[1].fields, "g")
    /\ interpreter.insts[1].fields["g"] = NumV(5)
    /\ interpreter.insts[2].klass = interpreter.insts[1].klass
    /\ ~MapHas(interpreter.insts[2].fields, "g")
    /\ interpreter.exc.k = "RuntimeError"
    /\ interpreter.exc.message = "Undefined property 'g'."

(***************************************************************************)
(* Binary expressions.  interpret is given the statements of a prelude and *)
(* then one print of a binary expression, as a tree.                       *)
(***************************************************************************)
\*   class K { }
\*   let k = K();
\*   let a = 10;
\*   let b = 20;
BinaryPrelude ==
    <<"c", "l", "a", "s", "s", " ", "K", " ", "{", " ", "}", "\n", "l",
      "e", "t", " ", "k", " ", "=", " ", "K", "(", ")", ";", "\n", "l",
      "e", "t", " ", "a", " ", "=", " ", "1", "0", ";", "\n", "l", "e",
      "t", " ", "b", " ", "=", " ", "2", "0", ";", "\n">>

BinaryOperators ==
    {Token("PLUS", "+", Null, 5, 8), Token("MINUS", "-", Null, 5, 8),
     Token("STAR", "*", Null, 5, 8), Token("SLASH", "/", Null, 5, 8),
     Token("LESS", "<", Null, 5, 8), Token("LESS_EQUAL", "<=", Null, 5, 8),
     Token("GREATER", ">", Null, 5, 8), Token("GREATER_EQUAL", ">=", Null, 5, 8)}

\* the operands: the numbers a and b, two strings, nil, a boolean, a list
\* and the instance k
BinaryOperands ==
    {[type |-> "VariableExpression", name |-> NameToken("a")],
     [type |-> "VariableExpression", name |-> NameToken("b")],
     [type |-> "LiteralExpression", value |-> StrV("s")],
     [type |-> "LiteralExpression", value |-> StrV("2")],
     [type |-> "LiteralExpression", value |-> Null],
     [type |-> "LiteralExpression", value |-> BoolV(TRUE)],
     [type |-> "ListLiteralExpression",
      elements |-> <<[type |-> "LiteralExpression", value |-> NumV(1)]>>],
     [type |-> "VariableExpression", name |-> NameToken("k")]}

PrintBinary(left, operator, right) ==
    [type |-> "PrintStatement",
     expression |-> [type |-> "BinaryExpression", left |-> left,
                     operator |-> operator, right |-> right]]

InitBinary ==
    /\ source = BinaryPrelude
    /\ entry \in Entries
    /\ pc = "interpret"
    /\ lexer = scanTokens(NewLexer(source))
    /\ parser = parse(NewParser(lexer.tokens)).p
    /\ \E left \in BinaryOperands, right \in BinaryOperands, operator \in BinaryOperators :
           statements = parse(NewParser(lexer.tokens)).statements
                            \o <<PrintBinary(left, operator, right)>>
    /\ interpreter = NewInterpreter
    /\ idx = 1
    /\ stderr = <<>>
    /\ escaped = NoExc
    /\ preview = FALSE
    /\ diagnostics = <<>>

\* interpret(statements) alone
Interpret == Execute \/ Return \/ Catch

SpecBinary == InitBinary /\ [][Interpret]_vars

\* the statement the loop of interpret is about to execute prints a binary
\* expression
AtBinary ==
    /\ pc = "interpret"
    /\ idx \in DOMAIN statements
    /\ statements[idx].type = "PrintStatement"
    /\ statements[idx].expression.type = "BinaryExpression"

\* the evaluation r failed with a RuntimeError that carries the operator
RaisedWith(r, operator) ==
    /\ r.st.exc.k = "RuntimeError"
    /\ r.st.exc.token = operator
    /\ r.v = Undefined

NumLess(x, y) == x.num * y.den < y.num * x.den

\* C20: for numbers a and b, a < b, a <= b, a > b and a >= b evaluate to
\* the boolean of the comparison of the numbers; with a = 10 and b = 20,
\* print a < b prints true.
C20_ComparisonsAreBooleans ==
    AtBinary =>
        LET expr == statements[idx].expression
            left == evaluate(interpreter, expr.left)
            right == evaluate(left.st, expr.right)
            r == visitBinaryExpression(interpreter, expr)
        IN (left.v.t = "number" /\ right.v.t = "number") =>
              /\ expr.operator.type = "LESS" =>
                     r = Ret(right.st, BoolV(NumLess(left.v, right.v)))
              /\ expr.operator.type = "LESS_EQUAL" =>
                     r = Ret(right.st, BoolV(~NumLess(right.v, left.v)))
              /\ expr.operator.type = "GREATER" =>
                     r = Ret(right.st, BoolV(NumLess(right.v, left.v)))
              /\ expr.operator.type = "GREATER_EQUAL" =>
                     r = Ret(right.st, BoolV(~NumLess(left.v, right.v)))

\* print a < b, with a = 10 and b = 20, has printed nil
C20_LessPrintsNil ==
    /\ pc = "done"
    /\ statements[Len(statements)].expression.type = "BinaryExpression"
    /\ statements[Len(statements)].expression.operator.type = "LESS"
    /\ statements[Len(statements)].expression.left.type = "VariableExpression"
    /\ statements[Len(statements)].expression.left.name.lexeme = "a"
    /\ statements[Len(statements)].expression.right.type = "VariableExpression"
    /\ statements[Len(statements)].expression.right.name.lexeme = "b"
    /\ interpreter.frames[1].values["a"] = NumV(10)
    /\ interpreter.frames[1].values["b"] = NumV(20)
    /\ interpreter.out = <<"nil">>

(***************************************************************************)
(* The loop of scanTokens, one round at a time, over every text of a few   *)
(* characters: a letter, a digit, the string quote, the newline, the star  *)
(* of the block comment and a character the lexer does not know.           *)
(***************************************************************************)
MaxChars == 4

ScanAlphabet == {"a", "1", "\"", "\n", "*", "@"}

ScanSources == UNION {[1..n -> ScanAlphabet] : n \in 0..MaxChars}

InitScan ==
    /\ source \in ScanSources
    /\ entry = "main"
    /\ pc = "scan"
    /\ lexer = NewLexer(source)
    /\ parser = NewParser(<<>>)
    /\ statements = <<>>
    /\ interpreter = NewInterpreter
    /\ idx = 0
    /\ stderr = <<>>
    /\ escaped = NoExc
    /\ preview = FALSE
    /\ diagnostics = <<>>

\* one round of the loop:  this.start = this.current; this.scanToken();
ScanRound ==
    /\ pc = "scan"
    /\ ~LexIsAtEnd(lexer)
    /\ lexer' = scanToken([lexer EXCEPT !.start = lexer.current])
    /\ UNCHANGED <<source, diagnostics, entry, pc, parser, statements, interpreter, idx,
                   stderr, escaped, preview>>

\* the loop is over: the EOF token is pushed and scanTokens returns
ScanReturn ==
    /\ pc = "scan"
    /\ LexIsAtEnd(lexer)
    /\ lexer' = [lexer EXCEPT !.tokens =
                    Append(@, Token("EOF", "", Null, lexer.line,
                                    lexer.current - lexer.lineStart))]
    /\ pc' = "parse"
    /\ UNCHANGED <<source, diagnostics, entry, parser, statements, interpreter, idx,
                   stderr, escaped, preview>>

Scan == ScanRound \/ ScanReturn

\* the loop is a loop of one thread: a round that can be taken is taken
SpecScan == InitScan /\ [][Scan]_vars /\ WF_vars(Scan)

\* the tokens end with the EOF token, and no other token is an EOF token
EndsWithOneEOF(tokens) ==
    /\ tokens # <<>>
    /\ tokens[Len(tokens)].type = "EOF"
    /\ \A i \in 1..Len(tokens) - 1 : tokens[i].type # "EOF"

\* what a round that starts at a character the lexer does not know, at a
\* letter or at a digit does
RoundAtCharacter ==
    LET c == CharAt(lexer, lexer.current)
    IN /\ c = "@" =>
            /\ Len(lexer'.errors) = Len(lexer.errors) + 1
            /\ lexer'.errors[Len(lexer'.errors)].message = "Unexpected character: '@'"
            /\ lexer'.tokens = lexer.tokens
            /\ lexer'.current = lexer.current + 1
       /\ (isAlpha(c) \/ isDigit(c)) =>
            /\ Len(lexer'.tokens) = Len(lexer.tokens) + 1
            /\ lexer'.tokens[Len(lexer'.tokens)].type =
                   (IF isDigit(c) THEN "NUMBER" ELSE "IDENTIFIER")
            /\ SubSeq(lexer'.tokens, 1, Len(lexer.tokens)) = lexer.tokens
            /\ lexer'.errors = lexer.errors

\* C21: scanTokens terminates for every text, also with unknown
\* characters, an unterminated string or an unterminated comment: each round
\* of its loop consumes a character at least, and the loop is left.  The
\* list it returns ends with the EOF token and holds no other EOF token.  An
\* unknown character records one error and consumes that character only; a
\* round that starts at a letter or a digit later emits its token.
C21_ScanEndsWithOneEOF ==
    /\ [](pc = "parse" => EndsWithOneEOF(lexer.tokens))
    /\ [](pc = "parse" => lexer = scanTokens(NewLexer(source)))
    /\ [][pc = "scan" /\ ~LexIsAtEnd(lexer) =>
              /\ lexer'.current > lexer.current
              /\ lexer'.current <= Len(source)
              /\ RoundAtCharacter]_vars
    /\ <>(pc = "parse")

\* a text with an unknown character, then an identifier, then a string that
\* is not closed: the identifier is a token, and two errors are recorded
C21_AfterUnknownCharacter ==
    /\ pc = "parse"
    /\ source = <<"@", "a", "1", "\"">>
    /\ Len(lexer.errors) = 2
    /\ Len(lexer.tokens) = 2
    /\ lexer.tokens[1].type = "IDENTIFIER"
    /\ lexer.tokens[1].lexeme = "a1"
    /\ lexer.tokens[2].type = "EOF"

\* the number of newline characters before offset off of the text
NewlinesBefore(text, off) == Cardinality({i \in 1..off : text[i] = "\n"})

\* the offset of the first character of the line of the character at off
LineStartOf(text, off) ==
    LET newlines == {i \in 1..off : text[i] = "\n"}
    IN IF newlines = {} THEN 0 ELSE CHOOSE i \in newlines : \A j \in newlines : j <= i

\* C22: every token a round emits has the column of its first character
\* within the line of that character, and the line one plus the number of
\* newlines before that character; also after a newline inside a string or
\* inside a block comment.
C22_TokenLineAndColumn ==
    [][(pc = "scan" /\ ~LexIsAtEnd(lexer) /\ Len(lexer'.tokens) = Len(lexer.tokens) + 1) =>
          LET t == lexer'.tokens[Len(lexer'.tokens)]
          IN /\ t.line = 1 + NewlinesBefore(source, lexer.current)
             /\ t.column = lexer.current - LineStartOf(source, lexer.current)]_vars

\* the string with a newline in it has the line of its end, and the
\* identifier after it, second character of line 2, has column 3
C22_StaleLineStart ==
    /\ pc = "parse"
    /\ source = <<"\"", "\n", "\"", "a">>
    /\ lexer.tokens[1].type = "STRING"
    /\ lexer.tokens[1].line = 2
    /\ lexer.tokens[2].type = "IDENTIFIER"
    /\ lexer.tokens[2].line = 2
    /\ lexer.tokens[2].column = 3

(***************************************************************************)
(* Words: keywords, names that begin or end like keywords, and names that  *)
(* every JavaScript object inherits.                                       *)
(***************************************************************************)
\*   let 
WordLet ==
    <<"l", "e", "t", " ">>

\*   lets 
WordLets ==
    <<"l", "e", "t", "s", " ">>

\*   While 
WordWhile ==
    <<"W", "h", "i", "l", "e", " ">>

\*   _x1 
WordUnderscore ==
    <<"_", "x", "1", " ">>

\*   nil 
WordNil ==
    <<"n", "i", "l", " ">>

\*   class 
WordClass ==
    <<"c", "l", "a", "s", "s", " ">>

\*   constructor 
WordConstructor ==
    <<"c", "o", "n", "s", "t", "r", "u", "c", "t", "o", "r", " ">>

\*   toString 
WordToString ==
    <<"t", "o", "S", "t", "r", "i", "n", "g", " ">>

WordMenu ==
    {WordLet, WordLets, WordWhile, WordUnderscore,
     WordNil, WordClass, WordConstructor, WordToString}


InitWords ==
    /\ source \in Programs(<<>>, WordMenu)
    /\ entry = "main"
    /\ pc = "scan"
    /\ lexer = NewLexer(source)
    /\ parser = NewParser(<<>>)
    /\ statements = <<>>
    /\ interpreter = NewInterpreter
    /\ idx = 0
    /\ stderr = <<>>
    /\ escaped = NoExc
    /\ preview = FALSE
    /\ diagnostics = <<>>

SpecWords == InitWords /\ [][Scan]_vars

RECURSIVE RunsOf(_, _)
\* the maximal runs without a space of the characters cs, after the run so far
RunsOf(cs, run) ==
    IF cs = <<>> THEN (IF run = "" THEN <<>> ELSE <<run>>)
    ELSE IF Head(cs) = " "
    THEN (IF run = "" THEN <<>> ELSE <<run>>) \o RunsOf(Tail(cs), "")
    ELSE RunsOf(Tail(cs), run \o Head(cs))

\* C23: every maximal run of letters, digits and underscores that starts
\* with a letter or an underscore is one token, with the tag of the keyword
\* when the run is one of the twelve keywords and IDENTIFIER otherwise, also
\* for constructor, toString, While and lets.
C23_KeywordOrIdentifier ==
    pc = "parse" =>
        LET runs == RunsOf(source, "")
        IN /\ Len(lexer.tokens) = Len(runs) + 1
           /\ \A i \in 1..Len(runs) :
                  /\ lexer.tokens[i].lexeme = runs[i]
                  /\ lexer.tokens[i].type =
                         (IF runs[i] \in DOMAIN keywords THEN keywords[runs[i]]
                          ELSE "IDENTIFIER")

\* lets and While are identifiers, let is the keyword
C23_NearKeywords ==
    /\ pc = "parse"
    /\ source = WordLets \o WordLet \o WordWhile
    /\ lexer.tokens[1].type = "IDENTIFIER"
    /\ lexer.tokens[2].type = "LET"
    /\ lexer.tokens[3].type = "IDENTIFIER"

(***************************************************************************)
(* Parser.parse, one round of its loop at a time: what a declaration that  *)
(* failed leaves in the statement lists, where synchronize resumes, and    *)
(* that every round consumes tokens.                                       *)
(***************************************************************************)
\*   { print; }
BlockPrintNothing ==
    <<"{", " ", "p", "r", "i", "n", "t", ";", " ", "}", "\n">>

\*   1 = 2;
AssignToNumber ==
    <<"1", " ", "=", " ", "2", ";", "\n">>

\*   print ) class K { }
PrintThenClass ==
    <<"p", "r", "i", "n", "t", " ", ")", " ", "c", "l", "a", "s", "s", " ",
      "K", " ", "{", " ", "}", "\n">>

\*   print ) ui u = 1;
PrintThenUi ==
    <<"p", "r", "i", "n", "t", " ", ")", " ", "u", "i", " ", "u", " ", "=",
      " ", "1", ";", "\n">>

\*   print let a = 1;
PrintThenLet ==
    <<"p", "r", "i", "n", "t", " ", "l", "e", "t", " ", "a", " ", "=", " ",
      "1", ";", "\n">>

\*   class C { m() { print; } }
MethodPrintNothing ==
    <<"c", "l", "a", "s", "s", " ", "C", " ", "{", " ", "m", "(", ")", " ",
      "{", " ", "p", "r", "i", "n", "t", ";", " ", "}", " ", "}", "\n">>

\*   fn f() { }
FnDeclaration ==
    <<"f", "n", " ", "f", "(", ")", " ", "{", " ", "}", "\n">>

ParseMenu ==
    {PrintOne, BlockPrintNothing, AssignToNumber, PrintThenClass, PrintThenUi,
     PrintThenLet, MethodPrintNothing, FnDeclaration}

InitParse ==
    /\ source \in Programs(<<>>, ParseMenu)
    /\ entry = "main"
    /\ pc = "lex"
    /\ lexer = NewLexer(source)
    /\ parser = NewParser(<<>>)
    /\ statements = <<>>
    /\ interpreter = NewInterpreter
    /\ idx = 0
    /\ stderr = <<>>
    /\ escaped = NoExc
    /\ preview = FALSE
    /\ diagnostics = <<>>

\* new Parser(tokens), and  const statements = [];  of parse()
ParseNew ==
    /\ pc = "parse"
    /\ parser' = NewParser(lexer.tokens)
    /\ statements' = <<>>
    /\ pc' = "parsing"
    /\ UNCHANGED <<source, diagnostics, entry, lexer, interpreter, idx, stderr, escaped,
                   preview>>

\* one round of  while (!this.isAtEnd()) statements.push(this.declaration());
ParseRound ==
    /\ pc = "parsing"
    /\ ~isAtEnd(parser)
    /\ parser' = declaration(parser).p
    /\ statements' = Append(statements, declaration(parser).node)
    /\ UNCHANGED <<source, diagnostics, entry, pc, lexer, interpreter, idx, stderr, escaped,
                   preview>>

\* return statements.filter(s => s !== null);
ParseReturn ==
    /\ pc = "parsing"
    /\ isAtEnd(parser)
    /\ statements' = FilterNulls(statements)
    /\ pc' = "gate"
    /\ UNCHANGED <<source, diagnostics, entry, lexer, parser, interpreter, idx, stderr,
                   escaped, preview>>

ParseSteps == Lex \/ ParseNew \/ ParseRound \/ ParseReturn

SpecParse == InitParse /\ [][ParseSteps]_vars

\* no statement list of the tree below node holds a null: not the list of a
\* block, not the body of a method
RECURSIVE NullFree(_)
NullFree(node) ==
    /\ node # NullNode
    /\ CASE node.type = "BlockStatement" ->
                \A i \in DOMAIN node.statements : NullFree(node.statements[i])
         [] node.type = "IfStatement" ->
                /\ NullFree(node.thenBranch)
                /\ node.elseBranch = NullNode \/ NullFree(node.elseBranch)
         [] node.type = "ClassStatement" ->
                \A m \in DOMAIN node.methods :
                    \A i \in DOMAIN node.methods[m].body :
                        NullFree(node.methods[m].body[i])
         [] OTHER -> TRUE

\* C24: after parse(), a declaration during whose parsing an error was
\* reported is absent from the result (it was pushed as null, and the nulls
\* are filtered out) and has incremented the error counter, and no statement
\* list of the returned tree holds a null: not the top-level list, not the
\* list of a block, not a method body.
C24_FailedDeclarationsAbsent ==
    /\ [](pc = "gate" => \A i \in DOMAIN statements : NullFree(statements[i]))
    /\ [][pc = "parsing" /\ ~isAtEnd(parser) =>
              (parser'.errors > parser.errors
                   <=> statements'[Len(statements')] = NullNode)]_vars

\* { print; } is parsed to a block statement whose list is [null]
C24_NullInBlock ==
    /\ pc = "gate"
    /\ source = BlockPrintNothing
    /\ parser.errors = 1
    /\ Len(statements) = 1
    /\ statements[1].type = "BlockStatement"
    /\ statements[1].statements = <<NullNode>>

\* the points at which recovery from an error reported at offset e is to
\* stop: the end of input, a token that starts a declaration, just past a ;
DeclarationStarts == {"LET", "UI", "CLASS", "FN"}

RecoveryPoint(p, e) ==
    \/ isAtEnd(p)
    \/ peek(p).type \in DeclarationStarts
    \/ p.current > e /\ previous(p).type = "SEMICOLON"

RECURSIVE FirstRecoveryPoint(_, _)
FirstRecoveryPoint(p, e) ==
    IF RecoveryPoint(p, e) THEN p.current ELSE FirstRecoveryPoint(advance(p), e)

ResumesAtFirstPoint(failed, resumed) ==
    failed.thrown => resumed.current = FirstRecoveryPoint(failed.p, failed.p.current)

\* C25: after a parse error, recovery discards tokens only up to the first
\* of: just past a ;, immediately before let, ui, class or fn, or the end of
\* input, and the next declaration is parsed from exactly that token.
C25_ResumesAtRecoveryPoint ==
    [][pc = "parsing" /\ ~isAtEnd(parser) =>
           ResumesAtFirstPoint(declarationTry(parser), parser')]_vars

\* print ) class K { }  followed by  print 1;  : the class declaration and
\* the print statement are both discarded
C25_ClassDiscarded ==
    /\ pc = "gate"
    /\ source = PrintThenClass \o PrintOne
    /\ parser.errors = 1
    /\ statements = <<>>

\* the parser at offset q of its token list
ParserAt(q) == [parser EXCEPT !.current = q]

Consumes(before, after) ==
    /\ after.current > before.current
    /\ after.current < Len(before.tokens)

\* one round of the loop of block(), of classDeclaration() and one call of
\* synchronize() with the parser at p
RoundsConsume(p) ==
    /\ ~isAtEnd(p) => Consumes(p, declaration(p).p)
    /\ ~isAtEnd(p) =>
           \/ function(match(p, {"STATIC"}), matches(p, {"STATIC"})).thrown
           \/ Consumes(p, function(match(p, {"STATIC"}), matches(p, {"STATIC"})).p)
    /\ ~isAtEnd(p) => Consumes(p, synchronize(p))
    /\ isAtEnd(p) => synchronize(p) = p

\* C29: Parser.parse terminates for every token list that ends with EOF:
\* each round of the loops of parse, block and classDeclaration consumes at
\* least one token or ends the loop, and synchronize consumes at least one
\* token unless the parser is at EOF.  The offset of the parser is the
\* variant: it grows in every round and stays below the number of tokens, so
\* the loop of parse has made no more rounds than tokens are consumed, and
\* the state at its return is the value of parse.
C29_ParseTerminates ==
    /\ [][pc = "parsing" /\ ~isAtEnd(parser) => Consumes(parser, parser')]_vars
    /\ [](pc = "parsing" =>
              \A q \in 0..(Len(parser.tokens) - 1) : RoundsConsume(ParserAt(q)))
    /\ [](pc = "gate" =>
              /\ parser = parse(NewParser(lexer.tokens)).p
              /\ statements = parse(NewParser(lexer.tokens)).statements)
    /\ [](pc = "parsing" =>
              /\ Len(statements) <= parser.current
              /\ parser.current < Len(parser.tokens))

\* two declarations failed, one of them in a block, and parse returned
C29_RecoveredTwice ==
    /\ pc = "gate"
    /\ source = BlockPrintNothing \o FnDeclaration \o PrintOne
    /\ parser.errors = 2
    /\ isAtEnd(parser)
    /\ Len(statements) = 1

(***************************************************************************)
(* The language server: validateLambdaDocument scans and parses the text   *)
(* of a document and sends the errors of both as its diagnostics.          *)
(***************************************************************************)
ServerMenu ==
    {PrintOne, LetA, PrintNothing, StrayCharacter, OpenString, AssignToNumber}

\* a document is opened or changed: validateLambdaDocument(change.document)
InitServer ==
    /\ source \in Programs(<<>>, ServerMenu)
    /\ entry = "server"
    /\ pc = "lex"
    /\ lexer = NewLexer(source)
    /\ parser = NewParser(<<>>)
    /\ statements = <<>>
    /\ interpreter = NewInterpreter
    /\ idx = 0
    /\ stderr = <<>>
    /\ escaped = NoExc
    /\ preview = FALSE
    /\ diagnostics = <<>>

\* the values spread into the array literal: lexer.errors is the array of
\* Lexer.reportError, parser.errors the number that Parser.error counts
LexerErrors(lx) == [array |-> TRUE, elements |-> lx.errors]

ParserErrors(p) == [array |-> FALSE, number |-> p.errors]

\* [...a, ...b]: the elements of both, or the TypeError of JS for a value
\* that is not iterable
SpreadBoth(a, aName, b, bName) ==
    IF ~a.array THEN [exc |-> TypeError(aName \o " is not iterable"), elements |-> <<>>]
    ELSE IF ~b.array
         THEN [exc |-> TypeError(bName \o " is not iterable"), elements |-> <<>>]
    ELSE [exc |-> NoExc, elements |-> a.elements \o b.elements]

\* const diagnostics = [...lexerErrors, ...parserErrors];
\* connection.sendDiagnostics({ uri: textDocument.uri, diagnostics });
SendDiagnostics ==
    /\ pc = "gate"
    /\ LET Send(spread) ==
               IF spread.exc # NoExc
               THEN /\ escaped' = spread.exc
                    /\ pc' = "escaped"
                    /\ UNCHANGED diagnostics
               ELSE /\ diagnostics' = Append(diagnostics, spread.elements)
                    /\ pc' = "done"
                    /\ UNCHANGED escaped
       IN Send(SpreadBoth(LexerErrors(lexer), "lexerErrors",
                          ParserErrors(parser), "parserErrors"))
    /\ UNCHANGED <<source, entry, lexer, parser, statements, interpreter, idx, stderr,
                   preview>>

Validate == Lex \/ Parse \/ SendDiagnostics

SpecServer == InitServer /\ [][Validate]_vars

\* validateLambdaDocument has returned or thrown
Validated == pc \in {"done", "escaped"}

\* C26: for any document text, validateLambdaDocument completes without
\* running the interpreter and sends one diagnostics list, which holds one
\* {range, message, severity} entry for each error the lexer reported and one
\* for each error the parser reported.
C26_DiagnosticsSent ==
    Validated =>
        /\ escaped = NoExc
        /\ interpreter = NewInterpreter
        /\ Len(diagnostics) = 1
        /\ Len(diagnostics[1]) = Len(lexer.errors) + parser.errors
        /\ \A i \in DOMAIN diagnostics[1] :
               DOMAIN diagnostics[1][i] = {"range", "message", "severity"}

\* a document with one lexer error and one parser error: nothing is sent
C26_NothingSent ==
    /\ pc = "escaped"
    /\ source = StrayCharacter \o PrintNothing
    /\ Len(lexer.errors) = 1
    /\ parser.errors = 1
    /\ escaped = TypeError("parserErrors is not iterable")
    /\ diagnostics = <<>>

(***************************************************************************)
(* Calls of a class whose init declares one parameter.                     *)
(***************************************************************************)
\*   class K { init(a) { print 7; } }
InitPrelude ==
    <<"c", "l", "a", "s", "s", " ", "K", " ", "{", " ", "i", "n", "i", "t",
      "(", "a", ")", " ", "{", " ", "p", "r", "i", "n", "t", " ", "7", ";",
      " ", "}", " ", "}", "\n">>

\*   K();
KWithNone ==
    <<"K", "(", ")", ";", "\n">>

\*   K(1);
KWithOne ==
    <<"K", "(", "1", ")", ";", "\n">>

\*   K(1, 2);
KWithTwo ==
    <<"K", "(", "1", ",", " ", "2", ")", ";", "\n">>

InitMenu == {KWithNone, KWithOne, KWithTwo, LenOfNumber, PrintOne}

InitInitializer == InitWith(InitPrelude, InitMenu)

SpecInit == InitInitializer /\ [][Next]_vars

\* a frame in which a function was entered holds an argument for every
\* parameter
ParametersBound(st, frame) ==
    \A n \in DOMAIN st.frames[frame].values : st.frames[frame].values[n] # Undefined

\* C28: a call of a class whose init declares n parameters with a number of
\* arguments other than n fails with the RuntimeError of the counts and no
\* statement of the body of init is executed; no body of init runs with a
\* parameter that is bound to no argument.
C28_InitArityBeforeBody ==
    /\ [](\A i \in DOMAIN interpreter.log :
              (interpreter.log[i].ev = "call" /\ interpreter.log[i].name = "init")
                  => ParametersBound(interpreter, interpreter.log[i].frame))
    /\ [][AtCall =>
          LET expr == statements[idx].expression
              callee == evaluate(interpreter, expr.callee)
              args == EvaluateElements(callee.st, expr.arguments, <<>>)
          IN (~Failed(callee.st) /\ ~Failed(args.st) /\ callee.v.t = "class"
                 /\ findMethod(args.st, callee.v.class, "init") # Undefined
                 /\ Len(args.v) # ArityOf(findMethod(args.st, callee.v.class, "init")))
               => FailedOnCounts(args.st, interpreter',
                                 ArityOf(findMethod(args.st, callee.v.class, "init")),
                                 Len(args.v))]_vars

\* K() has run the body of init, which printed, with a bound to nothing
C28_InitRanUnbound ==
    /\ pc = "done"
    /\ source = InitPrelude \o KWithNone
    /\ interpreter.out = <<"7">>
    /\ Len(interpreter.insts) = 1
    /\ \E i \in DOMAIN interpreter.log :
           /\ interpreter.log[i].ev = "call"
           /\ interpreter.log[i].name = "init"
           /\ interpreter.frames[interpreter.log[i].frame].values["a"] = Undefined

(***************************************************************************)
(* The natives get and len on lists.  The lexer has no token for [ and ],  *)
(* so the list is a tree:  print get([e1, ...], i);                        *)
(***************************************************************************)
MaxElements == 2

Literal(v) == [type |-> "LiteralExpression", value |-> v]

\* the elements: two numbers, a boolean, two strings and nil
GetElements ==
    {Literal(NumV(0)), Literal(NumV(1)), Literal(BoolV(FALSE)), Literal(StrV("")),
     Literal(StrV("a")), Literal(Null)}

GetLists ==
    {[type |-> "ListLiteralExpression", elements |-> es] :
        es \in UNION {[1..n -> GetElements] : n \in 0..MaxElements}}

\* the indexes: below, in and past the list, a fraction, and a string
GetIndexes ==
    {Literal(NumV(i)) : i \in -1..MaxElements} \cup {Literal(NumQ(1, 2)), Literal(StrV("0"))}

PrintGet(list, index) ==
    [type |-> "PrintStatement",
     expression |-> [type |-> "CallExpression",
                     callee |-> [type |-> "VariableExpression", name |-> NameToken("get")],
                     arguments |-> <<list, index>>]]

InitGet ==
    /\ source = <<>>
    /\ entry \in Entries
    /\ pc = "interpret"
    /\ lexer = scanTokens(NewLexer(source))
    /\ parser = parse(NewParser(lexer.tokens)).p
    /\ \E list \in GetLists, index \in GetIndexes : statements = <<PrintGet(list, index)>>
    /\ interpreter = NewInterpreter
    /\ idx = 1
    /\ stderr = <<>>
    /\ escaped = NoExc
    /\ preview = FALSE
    /\ diagnostics = <<>>

SpecGet == InitGet /\ [][Interpret]_vars

\* the statement the loop of interpret is about to execute prints a get
AtGet ==
    /\ pc = "interpret"
    /\ idx \in DOMAIN statements
    /\ statements[idx].type = "PrintStatement"
    /\ statements[idx].expression.type = "CallExpression"

\* the index is a whole number within the list
InBounds(list, index) ==
    /\ index.t = "number"
    /\ index.den = 1
    /\ index.num >= 0
    /\ index.num < Len(list.elems)

HandlePrelude ==
    <<"l", "e", "t", " ", "b", " ", "=", " ", "B", "u", "t", "t", "o", "n",
      "(", "\"", "o", "k", "\"", ")", ";", "\n", "l", "e", "t", " ", "w",
      " ", "=", " ", "L", "a", "b", "e", "l", "(", "\"", "a", "\"", ")",
      ";", "\n", "l", "e", "t", " ", "n", " ", "=", " ", "1", ";", "\n">>

PrintOfN ==
    [type |-> "PrintStatement",
     expression |-> [type |-> "VariableExpression", name |-> NameToken("n")]]

\* handle <component> <event> { print n; }
HandleOf(component, event) ==
    [type |-> "HandleStatement", componentName |-> NameToken(component),
     eventName |-> NameToken(event), body |-> <<PrintOfN>>]

\* { let n = 2; handle b <event> { print n; } }
HandleInBlock(event) ==
    [type |-> "BlockStatement",
     statements |-> <<[type |-> "VarStatement", name |-> NameToken("n"),
                       initializer |-> Literal(NumV(2))],
                      HandleOf("b", event)>>]

HandleMenu ==
    {HandleOf("b", "click"), HandleOf("b", "hover"), HandleInBlock("click"),
     HandleOf("w", "click"), HandleOf("n", "click"), PrintOfN}

InitHandle ==
    /\ source = HandlePrelude
    /\ entry \in Entries
    /\ pc = "interpret"
    /\ lexer = scanTokens(NewLexer(source))
    /\ parser = parse(NewParser(lexer.tokens)).p
    /\ \E first \in HandleMenu, second \in HandleMenu, n \in 1..2 :
           statements = parse(NewParser(lexer.tokens)).statements
                            \o SubSeq(<<first, second>>, 1, n)
    /\ interpreter = NewInterpreter
    /\ idx = 1
    /\ stderr = <<>>
    /\ escaped = NoExc
    /\ preview = FALSE
    /\ diagnostics = <<>>

\* the host invokes a handler a button holds, after interpret has returned:
\* eventHandlers[eventName].call(interpreter, [])
Fire ==
    /\ pc = "done"
    /\ ~Failed(interpreter)
    /\ \E nid \in DOMAIN interpreter.natives :
           /\ HasSetEventHandler(interpreter.natives[nid])
           /\ \E e \in DOMAIN interpreter.natives[nid].eventHandlers :
                  interpreter' =
                      HandlerCall(interpreter, interpreter.natives[nid].eventHandlers[e])
    /\ pc' = "fired"
    /\ UNCHANGED <<source, diagnostics, entry, lexer, parser, statements, idx, stderr,
                   escaped, preview>>

InterpretAndFire == Execute \/ Return \/ Catch \/ Fire

SpecHandle == InitHandle /\ [][InterpretAndFire]_vars

=============================================================================
